---- MODULE Spec2Model ----
(***************************************************************************)
(* Model of the tyminator virtual clock (src/tyminator/clock.py).          *)
(*                                                                         *)
(* Instants and durations are integers counting units of the timedelta     *)
(* resolution.  The stack records the calls in progress: an elapse that    *)
(* is running a scheduled action, the action body itself, and lock()       *)
(* scopes.  Control is always in caller code (the test, a lock() scope     *)
(* body or an action body); an elapse runs atomically from one invocation  *)
(* of a scheduled action to the next.                                      *)
(*                                                                         *)
(* Spec is the clock.  MarkSpec adds mark() to two clocks; MarkOpsSpec     *)
(* applies the comparisons and the arithmetic of Mark to Marks of two      *)
(* clocks.  PatchSpec is a PatchSet                                        *)
(* (src/pytest_timing/util/monkey_patch.py) over a module whose attribute  *)
(* A is an object with an attribute x of its own.  SchedSpec schedules     *)
(* with run_at, run_in and run_in_steps; NormSpec applies the normalizers  *)
(* of steps and changes to objects of any type; SleepSpec calls the sleep  *)
(* functions; InstalledSpec enters and leaves installed() scopes over the  *)
(* modules time and asyncio.  InActionSpec starts from a queue of two      *)
(* events whose actions schedule further events while they run;            *)
(* RescheduleSpec lets the running actions schedule themselves again and   *)
(* makes every action body end; SplitSpec advances a clock in two elapses  *)
(* next to the single elapse of the sum.  AsyncSpec is the asynchronous    *)
(* clock (src/pytest_timing/clock.py) called by two coroutines of one      *)
(* event loop.                                                             *)
(***************************************************************************)
EXTENDS Integers, Sequences, FiniteSets, TLC

VARIABLES
    clocks,             \* the Clock instances constructed
    current_datetime,   \* Clock.__current_datetime, per instance
    step,               \* Clock.__step, per instance
    is_locked,          \* Clock.__is_locked, per instance
    event_queue,        \* Clock.__event_queue: ONE list, a class attribute
    stack,              \* calls in progress, innermost last
    last,               \* what the latest step did (observation)
    next_id,            \* number of events appended so far (observation)
    tf_calls,           \* the run of time_function calls going on
                        \* (observation)
    mark_seq,           \* Clock.__mark_seq, per instance
    marks,              \* the Marks taken, in the order mark() made them
    mark_obs,           \* the latest operation on Marks and its result
                        \* (observation)
    attrs,              \* the attributes of the module that is patched and
                        \* of the objects reached from it
    patch_set,          \* the PatchSet instance
    patch_obs,          \* what the latest call on the PatchSet did
                        \* (observation)
    norm_obs,           \* the latest normalization of a step or a change
                        \* and its result (observation)
    installs,           \* the installed() scopes in progress, innermost
                        \* last
    split_obs,          \* an advance made in two elapses, and what one
                        \* elapse would have done (observation)
    tasks               \* the coroutines that call the asynchronous clock:
                        \* what each one is suspended in

\* the snapshots taken with mark()
mark_vars == <<mark_seq, marks, mark_obs>>

\* the PatchSet and what it patches
patch_vars == <<attrs, patch_set, patch_obs>>

\* the normalizers' observation, the installed() scopes, the advance in
\* two elapses and the coroutines
more_vars == <<norm_obs, installs, split_obs, tasks>>

vars == <<clocks, current_datetime, step, is_locked, event_queue, stack, last,
          next_id, tf_calls, mark_vars, patch_vars, more_vars>>

---------------------------------------------------------------------------
\* Bounds of the model.

\* latest instant the model lets a clock or an event reach
MaxTime == 2
\* number of events appended to the queue over a behaviour of one clock
\* constructed with the default step
MaxEvents == 3
\* the same, with two clocks or another step
MaxFewEvents == 1

\* length of the runs of time_function calls that are followed
MaxCalls == 2

\* number of marks taken over a behaviour
MaxMarks == 2

\* number of run_at calls between the calls of the sleep functions
MaxSleepEvents == 2

\* depth of the nesting of installed() scopes
MaxScopes == 2

\* number of patches of the PatchSet
MaxPatches == 2

\* number of events the running actions append over a behaviour
MaxScheduledByActions == 2

\* number of events the test appends when the actions schedule themselves
\* again
MaxTestEvents == 2

\* Units of the timedelta resolution in one second (10^6 microseconds in
\* the program, scaled down here).
UnitsPerSecond == 1

---------------------------------------------------------------------------
\* Values.

Clocks == {"c1", "c2"}

\* plain functions f and g, and a coroutine function co; none of them
\* defines an ordering, and each is equal only to itself
Actions == {"f", "g", "co"}

\* an elapse that takes every action for a plain function
NeverCoroutineFunction(action) == FALSE

\* asyncio.iscoroutinefunction(action), line 150
iscoroutinefunction(action) == action = "co"

Exceptions == {"ValueError", "LockError", "TypeError", "NotImplementedError",
               "RuntimeError"}

\* the start every clock is constructed with
DEFAULT_CLOCK_START == 0

IntArg(n) == [type |-> "int", v |-> n]
\* a float of h half-units, i.e. h / (2 * UnitsPerSecond) seconds
FloatArg(h) == [type |-> "float", v |-> h]
\* a timedelta of u units
TimedeltaArg(u) == [type |-> "timedelta", v |-> u]

\* round(h / 2) to the nearest integer, ties to the even one
RoundHalfEven(h) ==
    LET q == h \div 2 IN
    IF h % 2 = 0 THEN q ELSE IF q % 2 = 0 THEN q ELSE q + 1

\* datetime.timedelta(seconds=x) for a float x, rounded to the resolution
timedelta_seconds(x) ==
    IF x.type = "int" THEN x.v * UnitsPerSecond ELSE RoundHalfEven(x.v)

from_step(s) ==
    IF s.type = "int" THEN timedelta_seconds(s) ELSE s.v

from_change(change) ==
    IF change.type \in {"int", "float"} THEN timedelta_seconds(change)
    ELSE change.v

\* datetime.timestamp() of a naive datetime: a fixed function of the instant
\* (the platform's local time), kept uninterpreted
Timestamp(dt) == <<"timestamp", dt>>

---------------------------------------------------------------------------
\* The event queue.

\* Clock.__Event, with the clock whose run_at made it and the number of
\* the append that made it (neither is a field of the program's event)
Event(id, when, action, owner) ==
    [id |-> id, when |-> when, action |-> action, owner |-> owner]

NoEvent == Event(0, 0, "none", "none")

\* SORT_KEY is (when, action): two keys are ordered by `when`; with equal
\* `when` the actions are compared, which works only when they are equal
KeysComparable(e1, e2) == e1.when # e2.when \/ e1.action = e2.action

\* list.sort compares, at some point, every two events that end up next to
\* each other, so it raises TypeError exactly when two queued events have
\* the same `when` and different actions
SortRaises(q) ==
    \E i, j \in 1..Len(q) : ~KeysComparable(q[i], q[j])

RECURSIVE InsertByWhen(_, _)
\* e put after the last event of q whose `when` is <= e.when
InsertByWhen(q, e) ==
    IF q = <<>> THEN <<e>>
    ELSE IF e.when < Head(q).when THEN <<e>> \o q
    ELSE <<Head(q)>> \o InsertByWhen(Tail(q), e)

RECURSIVE StableSort(_)
\* the stable sort of q by `when` (all keys comparable)
StableSort(q) ==
    IF q = <<>> THEN <<>>
    ELSE InsertByWhen(StableSort(SubSeq(q, 1, Len(q) - 1)), q[Len(q)])

\* self.__event_queue.sort(key=SORT_KEY) on a list q; when a comparison
\* raises, CPython leaves the appended event where append put it
sort(q) == IF SortRaises(q) THEN q ELSE StableSort(q)

---------------------------------------------------------------------------
\* Calls in progress and observations.

\* A call in progress.  kind "elapse": Clock.elapse on `clock`, entered
\* through `entry`, running towards `until`; `value` is the timestamp
\* next_timestamp read before it called elapse.  For the properties it also
\* records the instant the caller expects to reach (expect), whether the
\* caller's argument was negative (rawneg) and the event it fired last
\* (prev), and the arguments the caller of a sleep function supplied
\* (given).
\* kind "action": the body of `event`'s action, invoked with `clock`; prev
\* is the event the same elapse fired before it.
\* kind "lock": the body of a with clock.lock() scope.
Frame(kind, clock, entry, until, value, expect, rawneg, prev, event, given) ==
    [kind |-> kind, clock |-> clock, entry |-> entry, until |-> until,
     value |-> value, expect |-> expect, rawneg |-> rawneg,
     prev |-> prev, event |-> event, given |-> given]

NoValue == <<"None">>

LockFrame(c) ==
    Frame("lock", c, "lock", 0, NoValue, 0, FALSE, NoEvent, NoEvent,
          NoValue)

ActionFrame(c, event, prev) ==
    Frame("action", c, "action", 0, NoValue, 0, FALSE, prev, event,
          NoValue)

\* What a step did: the call `op` on `clock` ended with `outcome` ("ok" or
\* the exception raised; "running" when the step left an elapse inside an
\* action), for the reason `cause`, returning `value`.  For an elapse,
\* expect is the instant the caller expects to reach, rawneg tells that
\* the caller's argument was negative, and prev is the event fired last;
\* for a run_at, expect is the instant asked for; for a sleep_function or an
\* async_sleep_function, given holds the arguments of the caller: the
\* delay, the result and the loop.
Obs(op, clock, outcome, cause, value, expect, rawneg, prev, given) ==
    [op |-> op, clock |-> clock, outcome |-> outcome, cause |-> cause,
     value |-> value, expect |-> expect, rawneg |-> rawneg, prev |-> prev,
     given |-> given]

Plain(op, clock, outcome, cause) ==
    Obs(op, clock, outcome, cause, NoValue, 0, FALSE, NoEvent, NoValue)

\* a run of k calls of time_function on `clock`, one after the other, each
\* made with the clock unlocked and the queue empty; the first one found
\* the clock at `start`
Calls(clock, start, k) == [clock |-> clock, start |-> start, k |-> k]

NoCalls == Calls("none", 0, 0)

\* the stack without its innermost call
Pop(stk) == SubSeq(stk, 1, Len(stk) - 1)

Top(stk) == stk[Len(stk)]

\* control is in caller code: the test itself, a lock() scope or an action
InCaller ==
    IF stack = <<>> THEN TRUE ELSE Top(stack).kind \in {"lock", "action"}

---------------------------------------------------------------------------
\* The reentrancy lock.

\* a lock() that does not take the lock
AcquireForgotten(lk, c) == lk

\* lock(), line 247: self.__is_locked = True
Acquire(lk, c) == [lk EXCEPT ![c] = TRUE]

\* a lock() scope without its finally clause
ReleaseForgotten(lk, c) == lk

\* lock(), line 250: del self.__is_locked uncovers the class attribute False
Release(lk, c) == [lk EXCEPT ![c] = FALSE]

\* lock() without its guard
NeverLocked(lk, c) == FALSE

\* lock(), line 244: the guard that raises LockError
AlreadyLocked(lk, c) == lk[c]

---------------------------------------------------------------------------
\* elapse.

\* __run_pending_events, line 146: the condition of the loop
Due(q, until) == q # <<>> /\ Head(q).when <= until

\* an elapse that counts the change from the start of the clock
NextDatetimeFromStart(now, change) == DEFAULT_CLOCK_START + change

\* elapse, line 161
NextDatetime(now, change) == now + change

\* a loop that leaves the clock where it is when it takes an event
FireSkipped(cur, c, when) == cur

\* __run_pending_events, line 147: self.__current_datetime = event.when
Fire(cur, c, when) == [cur EXCEPT ![c] = when]

\* a loop that leaves the event it takes in the queue
NothingDeleted(q) == q

\* __run_pending_events, line 148: del self.__event_queue[0]
Remaining(q) == Tail(q)

\* elapse without its last assignment
FinishSkipped(cur, c, until) == cur

\* elapse, line 163: self.__current_datetime = next_datetime
Finish(cur, c, until) == [cur EXCEPT ![c] = until]

\* elapse, line 157: the guard that raises ValueError
Rejected(change) == change < 0

\* the sign of the argument as the caller wrote it
RawNegative(arg) == arg.v < 0

\* time_function, line 182: except LockError
Catches(entry, exc) == entry = "time_function" /\ exc = "LockError"

\* next_timestamp reading the timestamp after the advance
ReturnedLate(frame) ==
    Obs(frame.entry, frame.clock, "ok", "none",
        IF frame.entry = "time_function" THEN Timestamp(frame.until)
        ELSE NoValue,
        frame.expect, frame.rawneg, frame.prev, frame.given)

\* what the caller of `entry` sees when elapse ends normally:
\* time_function returns the timestamp read before the advance
Returned(frame) ==
    Obs(frame.entry, frame.clock, "ok", "none", frame.value, frame.expect,
        frame.rawneg, frame.prev, frame.given)

\* an elapse that catches whatever leaves it
Swallowed(frame, exc, cause, now) ==
    Obs(frame.entry, frame.clock, "ok", cause, NoValue, frame.expect,
        frame.rawneg, frame.prev, frame.given)

\* what the caller of `entry` sees when `exc` leaves elapse with the
\* clock at `now`: time_function turns a LockError into a plain return of
\* current_timestamp
Raised(frame, exc, cause, now) ==
    Obs(frame.entry, frame.clock,
        IF Catches(frame.entry, exc) THEN "ok" ELSE exc, cause,
        IF Catches(frame.entry, exc) THEN Timestamp(now) ELSE NoValue,
        frame.expect, frame.rawneg, frame.prev, frame.given)

\* __run_pending_events and the rest of elapse, lines 146-163 and 249-250,
\* from the head of the loop up to the next invocation of an action or to
\* the end of the call.  `below` is the stack under the elapse, cur, lk and
\* q the clocks' instants, the locks and the queue at that point.
run_pending_events(frame, below, cur, lk, q) ==
    LET c == frame.clock IN
    IF Due(q, frame.until)
    THEN LET event == Head(q)
             now == Fire(cur, c, event.when) IN
         /\ current_datetime' = now
         /\ event_queue' = Remaining(q)
         /\ IF iscoroutinefunction(event.action)
            THEN /\ is_locked' = Release(lk, c)
                 /\ stack' = below
                 /\ last' = Raised(frame, "NotImplementedError", "coroutine",
                                   now[c])
            ELSE /\ is_locked' = lk
                 /\ stack' = below \o
                        <<[frame EXCEPT !.prev = event],
                          ActionFrame(c, event, frame.prev)>>
                 /\ last' = Plain("invoke", c, "running", "none")
    ELSE /\ current_datetime' = Finish(cur, c, frame.until)
         /\ event_queue' = q
         /\ is_locked' = Release(lk, c)
         /\ stack' = below
         /\ last' = Returned(frame)

\* Clock.elapse(arg) on clock c, lines 155-163, called through `entry`,
\* which returns `value` when elapse returns and was given `given`
elapse_through(c, entry, arg, value, given) ==
    LET change == from_change(arg)
        now == current_datetime[c]
        frame == Frame("elapse", c, entry, NextDatetime(now, change), value,
                       now + change, RawNegative(arg), NoEvent, NoEvent,
                       given)
    IN
    IF Rejected(change)
    THEN /\ last' = Raised(frame, "ValueError", "negative", now)
         /\ UNCHANGED <<current_datetime, is_locked, event_queue, stack>>
    ELSE IF AlreadyLocked(is_locked, c)
    THEN /\ last' = Raised(frame, "LockError", "locked", now)
         /\ UNCHANGED <<current_datetime, is_locked, event_queue, stack>>
    ELSE /\ frame.until <= MaxTime
         /\ run_pending_events(frame, stack, current_datetime,
                               Acquire(is_locked, c), event_queue)

\* Clock.elapse(arg) on clock c, called through `entry`: elapse itself,
\* elapse_steps, or time_function, which returns the timestamp read before
\* the call
elapse(c, entry, arg) ==
    elapse_through(c, entry, arg,
                   IF entry = "time_function"
                   THEN Timestamp(current_datetime[c]) ELSE NoValue,
                   NoValue)

Elapse(c, arg) ==
    /\ InCaller
    /\ elapse(c, "elapse", arg)
    /\ tf_calls' = NoCalls
    /\ UNCHANGED <<clocks, step, next_id>>
    /\ UNCHANGED <<mark_vars, patch_vars, more_vars>>

\* elapse_steps, line 166
ElapseSteps(c, steps) ==
    /\ InCaller
    /\ elapse(c, "elapse_steps", TimedeltaArg(step[c] * steps))
    /\ tf_calls' = NoCalls
    /\ UNCHANGED <<clocks, step, next_id>>
    /\ UNCHANGED <<mark_vars, patch_vars, more_vars>>

\* time_function, lines 179-183, through next_timestamp, next_datetime and
\* elapse_steps()
TimeFunction(c) ==
    /\ InCaller
    /\ elapse(c, "time_function", TimedeltaArg(step[c] * 1))
    /\ tf_calls' =
           IF is_locked[c] \/ event_queue # <<>> THEN NoCalls
           ELSE IF tf_calls.clock = c /\ tf_calls.k < MaxCalls
           THEN [tf_calls EXCEPT !.k = @ + 1]
           ELSE Calls(c, current_datetime[c], 1)
    /\ UNCHANGED <<clocks, step, next_id>>
    /\ UNCHANGED <<mark_vars, patch_vars, more_vars>>

\* the running action returns: the elapse under it goes on
ActionReturn ==
    /\ stack # <<>>
    /\ Top(stack).kind = "action"
    /\ run_pending_events(Top(Pop(stack)), Pop(Pop(stack)),
                          current_datetime, is_locked, event_queue)
    /\ tf_calls' = NoCalls
    /\ UNCHANGED <<clocks, step, next_id>>
    /\ UNCHANGED <<mark_vars, patch_vars, more_vars>>

\* the running action raises exc: it leaves __run_pending_events and
\* elapse, whose lock() scope releases the lock
ActionRaise(exc) ==
    /\ stack # <<>>
    /\ Top(stack).kind = "action"
    /\ LET frame == Top(Pop(stack)) IN
       /\ is_locked' = Release(is_locked, frame.clock)
       /\ stack' = Pop(Pop(stack))
       /\ last' = Raised(frame, exc, "action", current_datetime[frame.clock])
    /\ tf_calls' = NoCalls
    /\ UNCHANGED <<clocks, current_datetime, event_queue, step, next_id>>
    /\ UNCHANGED <<mark_vars, patch_vars, more_vars>>

---------------------------------------------------------------------------
\* Scheduling.

\* the bound on appended events
EventLimit ==
    IF clocks = {"c1"} /\ step["c1"] = from_step(IntArg(1)) THEN MaxEvents
    ELSE MaxFewEvents

\* run_at without its guard
NeverInThePast(when, now) == FALSE

\* run_at, line 223: the guard that raises ValueError
InThePast(when, now) == when < now

\* what the caller of run_at(action, when) sees
Scheduled(c, outcome, cause, when) ==
    Obs("run_at", c, outcome, cause, NoValue, when, FALSE, NoEvent, NoValue)

\* what the caller of run_in or run_in_steps (op), called with arg, sees
ScheduledBy(op, arg, c, outcome, cause, when) ==
    [Scheduled(c, outcome, cause, when) EXCEPT !.op = op, !.value = arg]

\* run_at, lines 221-227, with a naive `when` (as_naive returns it as is),
\* called through op with arg
run_at(c, action, when, op, arg) ==
    IF InThePast(when, current_datetime[c])
    THEN /\ last' = ScheduledBy(op, arg, c, "ValueError", "past", when)
         /\ UNCHANGED <<event_queue, next_id>>
    ELSE LET q == Append(event_queue,
                         Event(next_id + 1, when, action, c)) IN
         /\ next_id < EventLimit
         /\ event_queue' = sort(q)
         /\ next_id' = next_id + 1
         /\ last' = IF SortRaises(q)
                    THEN ScheduledBy(op, arg, c, "TypeError", "sort", when)
                    ELSE ScheduledBy(op, arg, c, "ok", "none", when)

RunAt(c, action, when) ==
    /\ InCaller
    /\ run_at(c, action, when, "run_at", NoValue)
    /\ tf_calls' = NoCalls
    /\ UNCHANGED <<clocks, current_datetime, step, is_locked, stack>>
    /\ UNCHANGED <<mark_vars, patch_vars, more_vars>>

\* run_in, lines 229-231, called through op with arg
run_in(c, action, change, op, arg) ==
    LET when == current_datetime[c] + from_change(change) IN
    /\ when <= MaxTime
    /\ run_at(c, action, when, op, arg)

RunIn(c, action, change) ==
    /\ InCaller
    /\ run_in(c, action, change, "run_in", change)
    /\ tf_calls' = NoCalls
    /\ UNCHANGED <<clocks, current_datetime, step, is_locked, stack>>
    /\ UNCHANGED <<mark_vars, patch_vars, more_vars>>

\* run_in_steps, lines 233-235
RunInSteps(c, action, steps) ==
    /\ InCaller
    /\ run_in(c, action, TimedeltaArg(step[c] * steps), "run_in_steps",
              IntArg(steps))
    /\ tf_calls' = NoCalls
    /\ UNCHANGED <<clocks, current_datetime, step, is_locked, stack>>
    /\ UNCHANGED <<mark_vars, patch_vars, more_vars>>

\* the number of an event that an action scheduled for its own function:
\* the opposite of the number of the event the test scheduled for it
Rescheduled(id) == IF id > 0 THEN 0 - id ELSE id

\* The running action schedules its own function again, with
\* clock.run_in(action, change): lines 229-231 and 221-227.  An action
\* does so once in a run.
Reschedule(change) ==
    /\ stack # <<>>
    /\ Top(stack).kind = "action"
    /\ LET running == Top(stack).event
           c == Top(stack).clock
           when == current_datetime[c] + from_change(change)
           q == Append(event_queue,
                       Event(Rescheduled(running.id), when, running.action,
                             c))
       IN
       /\ when <= MaxTime
       /\ \A i \in 1..Len(event_queue) :
              event_queue[i].id # Rescheduled(running.id)
       /\ IF InThePast(when, current_datetime[c])
          THEN /\ last' = ScheduledBy("run_in", NoValue, c, "ValueError",
                                      "past", when)
               /\ UNCHANGED event_queue
          ELSE /\ event_queue' = sort(q)
               /\ last' = IF SortRaises(q)
                          THEN ScheduledBy("run_in", NoValue, c, "TypeError",
                                           "sort", when)
                          ELSE ScheduledBy("run_in", NoValue, c, "ok", "none",
                                           when)
    /\ tf_calls' = NoCalls
    /\ UNCHANGED <<clocks, current_datetime, step, is_locked, stack, next_id>>
    /\ UNCHANGED <<mark_vars, patch_vars, more_vars>>

---------------------------------------------------------------------------
\* lock() scopes.

\* with clock.lock(): entered, lines 243-248
LockEnter(c) ==
    /\ InCaller
    /\ IF AlreadyLocked(is_locked, c)
       THEN /\ last' = Plain("lock", c, "LockError", "locked")
            /\ UNCHANGED <<is_locked, stack>>
       ELSE /\ is_locked' = Acquire(is_locked, c)
            /\ stack' = Append(stack, LockFrame(c))
            /\ last' = Plain("lock", c, "ok", "none")
    /\ tf_calls' = NoCalls
    /\ UNCHANGED <<clocks, current_datetime, step, event_queue, next_id>>
    /\ UNCHANGED <<mark_vars, patch_vars, more_vars>>

\* the body of the innermost lock() scope ends, normally or by raising:
\* lines 249-250
LockExit ==
    /\ stack # <<>>
    /\ Top(stack).kind = "lock"
    /\ is_locked' = Release(is_locked, Top(stack).clock)
    /\ stack' = Pop(stack)
    /\ last' = Plain("unlock", Top(stack).clock, "ok", "none")
    /\ tf_calls' = NoCalls
    /\ UNCHANGED <<clocks, current_datetime, step, event_queue, next_id>>
    /\ UNCHANGED <<mark_vars, patch_vars, more_vars>>

---------------------------------------------------------------------------
\* Marks.

\* Mark, lines 263-269: a frozen dataclass of clock, when and seq
Mark(clock, when, seq) ==
    [type |-> "Mark", clock |-> clock, when |-> when, seq |-> seq]

\* a naive datetime, as an operand or a result
DatetimeArg(t) == [type |-> "datetime", v |-> t]

\* the results of the special methods and of the operators
Bool(b) == [type |-> "bool", v |-> IF b THEN 1 ELSE 0]

NotImplemented == [type |-> "NotImplemented", v |-> 0]

TypeError == [type |-> "TypeError", v |-> 0]

\* no operation on Marks yet
NoMarkObs == [op |-> "none", left |-> NoValue, right |-> NoValue,
              result |-> NoValue]

\* Clock.mark, lines 237-240
TakeMark(c) ==
    /\ InCaller
    /\ Len(marks) < MaxMarks
    /\ marks' = Append(marks, Mark(c, current_datetime[c], mark_seq[c]))
    /\ mark_seq' = [mark_seq EXCEPT ![c] = @ + 1]
    /\ last' = Plain("mark", c, "ok", "none")
    /\ tf_calls' = NoCalls
    /\ UNCHANGED <<more_vars, clocks, current_datetime, step, is_locked,
                   event_queue,
                   stack, next_id, mark_obs, patch_vars>>

\* (w1, s1) < (w2, s2): tuples compare lexicographically
TupleLess(w1, s1, w2, s2) == w1 < w2 \/ (w1 = w2 /\ s1 < s2)

\* __lt__ that takes a Mark of any clock
Mark_lt_any_clock(self, other) ==
    IF other.type = "Mark"
    THEN Bool(TupleLess(self.when, self.seq, other.when, other.seq))
    ELSE NotImplemented

\* Mark.__lt__, lines 283-287
Mark_lt(self, other) ==
    IF other.type = "Mark" /\ self.clock = other.clock
    THEN Bool(TupleLess(self.when, self.seq, other.when, other.seq))
    ELSE NotImplemented

\* the __eq__ that dataclass generates, line 263: the fields compared as a
\* tuple (a Clock is equal only to itself)
Mark_eq(self, other) ==
    IF other.type = "Mark"
    THEN Bool(/\ self.clock = other.clock
              /\ self.when = other.when
              /\ self.seq = other.seq)
    ELSE NotImplemented

\* functools.total_ordering, line 264: __gt__, __le__ and __ge__ made from
\* __lt__ and __eq__
Mark_gt(self, other) ==
    LET r == Mark_lt(self, other) IN
    IF r = NotImplemented THEN r
    ELSE Bool(r = Bool(FALSE) /\ Mark_eq(self, other) # Bool(TRUE))

Mark_le(self, other) ==
    LET r == Mark_lt(self, other) IN
    IF r = NotImplemented THEN r
    ELSE Bool(r = Bool(TRUE) \/ Mark_eq(self, other) = Bool(TRUE))

Mark_ge(self, other) ==
    LET r == Mark_lt(self, other) IN
    IF r = NotImplemented THEN r ELSE Bool(r = Bool(FALSE))

ComparisonOps == {"lt", "gt", "le", "ge"}

\* the comparison Python tries on the right operand when the left one
\* returns NotImplemented
Reflected(op) ==
    CASE op = "lt" -> "gt"
      [] op = "gt" -> "lt"
      [] op = "le" -> "ge"
      [] op = "ge" -> "le"

\* self.__op__(other); an operand that is not a Mark does not know Marks
RichCompare(op, self, other) ==
    IF self.type # "Mark" THEN NotImplemented
    ELSE CASE op = "lt" -> Mark_lt(self, other)
           [] op = "gt" -> Mark_gt(self, other)
           [] op = "le" -> Mark_le(self, other)
           [] op = "ge" -> Mark_ge(self, other)

\* a < b, a > b, a <= b, a >= b: the left operand's method, then the right
\* operand's reflected one, then TypeError
Compare(op, a, b) ==
    LET first == RichCompare(op, a, b) IN
    IF first # NotImplemented THEN first
    ELSE LET second == RichCompare(Reflected(op), b, a) IN
         IF second # NotImplemented THEN second ELSE TypeError

\* Clock.as_naive, lines 127-132, of a datetime without tzinfo
as_naive(t) == t

\* Mark.__add__, lines 289-296
Mark_add(self, other) ==
    LET o == IF other.type = "int" THEN TimedeltaArg(from_step(other))
             ELSE other
    IN
    IF o.type = "timedelta" THEN DatetimeArg(self.when + o.v)
    ELSE NotImplemented

\* Mark.__sub__, lines 298-311
Mark_sub(self, other) ==
    LET o1 == IF other.type = "int" THEN TimedeltaArg(from_step(other))
              ELSE other
        o2 == IF o1.type = "Mark" THEN DatetimeArg(o1.when) ELSE o1
        o3 == IF o2.type = "datetime" THEN DatetimeArg(as_naive(o2.v))
              ELSE o2
    IN
    IF o3.type = "timedelta" THEN DatetimeArg(self.when - o3.v)
    ELSE IF o3.type = "datetime" THEN TimedeltaArg(self.when - o3.v)
    ELSE NotImplemented

\* Mark.__rsub__, lines 313-318
Mark_rsub(self, other) ==
    IF other.type = "datetime"
    THEN TimedeltaArg(as_naive(other.v) - self.when)
    ELSE NotImplemented

\* a + b with a Mark on the left: __add__, and TypeError when it returns
\* NotImplemented (Mark has no __radd__, and int, float, timedelta and
\* datetime do not know Marks)
Add(a, b) ==
    LET first == Mark_add(a, b) IN
    IF first # NotImplemented THEN first ELSE TypeError

\* a - b with a Mark on the left: __sub__, then (for a right operand of
\* another type, which is never a Mark) nothing more
Sub(a, b) ==
    LET first == Mark_sub(a, b) IN
    IF first # NotImplemented THEN first ELSE TypeError

\* a - b with a Mark on the right and another type on the left: the left
\* operand returns NotImplemented and __rsub__ is tried
RSub(a, b) ==
    LET second == Mark_rsub(b, a) IN
    IF second # NotImplemented THEN second ELSE TypeError

\* what the latest operation on Marks was and gave
MarkObs(op, left, right, result) ==
    [op |-> op, left |-> left, right |-> right, result |-> result]

\* m1 < m2, m1 > m2, m1 <= m2 or m1 >= m2 on the i-th and the j-th Mark
Compared(op, i, j) ==
    /\ mark_obs' = MarkObs(op, marks[i], marks[j],
                           Compare(op, marks[i], marks[j]))
    /\ UNCHANGED <<more_vars, clocks, current_datetime, step, is_locked,
                   event_queue,
                   stack, last, next_id, tf_calls, mark_seq, marks,
                   patch_vars>>

\* m + other on the i-th Mark
Added(i, other) ==
    /\ mark_obs' = MarkObs("add", marks[i], other, Add(marks[i], other))
    /\ UNCHANGED <<more_vars, clocks, current_datetime, step, is_locked,
                   event_queue,
                   stack, last, next_id, tf_calls, mark_seq, marks,
                   patch_vars>>

\* m - other on the i-th Mark
Subtracted(i, other) ==
    /\ mark_obs' = MarkObs("sub", marks[i], other, Sub(marks[i], other))
    /\ UNCHANGED <<more_vars, clocks, current_datetime, step, is_locked,
                   event_queue,
                   stack, last, next_id, tf_calls, mark_seq, marks,
                   patch_vars>>

\* other - m on the i-th Mark
RSubtracted(other, i) ==
    /\ mark_obs' = MarkObs("rsub", other, marks[i], RSub(other, marks[i]))
    /\ UNCHANGED <<more_vars, clocks, current_datetime, step, is_locked,
                   event_queue,
                   stack, last, next_id, tf_calls, mark_seq, marks,
                   patch_vars>>

---------------------------------------------------------------------------
\* Patches (pytest_timing.util.monkey_patch).

\* the attributes of the modules time and asyncio when the test starts
InitialModuleAttrs ==
    [time |-> [time |-> "time.time", sleep |-> "time.sleep"],
     asyncio |-> [sleep |-> "asyncio.sleep"]]

\* the objects that have attributes: the module `mod` that is patched, two
\* objects A and B, each with an attribute x, and the modules time and
\* asyncio
Holders == {"mod", "A", "B", "time", "asyncio"}

\* the attributes when the test starts: mod.A is A, mod.y and A.x and B.x
\* are plain values
InitialAttrs ==
    [mod |-> [A |-> "A", y |-> "v0"], A |-> [x |-> "v0"], B |-> [x |-> "w0"]]

\* what a getattr or a setattr with no such attribute raises
AttributeError == "AttributeError"

\* Spec, lines 12-15 (a module name and a dotted name, here split at the
\* dots)
AttrSpec(module_name, qualified_name) ==
    [module_name |-> module_name, qualified_name |-> qualified_name]

\* Spec.name, lines 17-19
name(spec) == spec.qualified_name[Len(spec.qualified_name)]

\* Spec.parent_qualified_name, lines 25-28 (<<>> for None)
parent_qualified_name(spec) ==
    SubSeq(spec.qualified_name, 1, Len(spec.qualified_name) - 1)

\* Spec.get_module, lines 34-38: the module registered under the name
get_module(spec) == spec.module_name

RECURSIVE attrgetter(_, _, _)
\* operator.attrgetter(names)(obj) with the attributes a
attrgetter(a, obj, names) ==
    IF names = <<>> THEN obj
    ELSE IF obj \notin DOMAIN a THEN AttributeError
    ELSE IF Head(names) \notin DOMAIN a[obj] THEN AttributeError
    ELSE attrgetter(a, a[obj][Head(names)], Tail(names))

\* Spec.get_obj, lines 40-41
get_obj(a, spec) == attrgetter(a, get_module(spec), spec.qualified_name)

\* Patch, lines 48-52
Patch(original_obj, spec) == [original_obj |-> original_obj, spec |-> spec]

\* a Patch that takes for the original what the module held when the test
\* started, whatever it holds now
from_spec_at_start(a, spec) ==
    Patch(attrgetter([h \in DOMAIN a |->
                         IF h \in DOMAIN InitialModuleAttrs
                         THEN InitialModuleAttrs[h] ELSE a[h]],
                     get_module(spec), spec.qualified_name), spec)

\* Patch.from_spec, lines 67-69
from_spec(a, spec) == Patch(get_obj(a, spec), spec)

\* the outcome of a call that writes attributes
Written(a, outcome) == [attrs |-> a, outcome |-> outcome]

\* Patch.install, lines 54-62
Patch_install(a, patch, obj) ==
    LET parent == attrgetter(a, get_module(patch.spec),
                             parent_qualified_name(patch.spec))
    IN
    IF parent \notin Holders THEN Written(a, AttributeError)
    ELSE Written([a EXCEPT ![parent][name(patch.spec)] = obj], "ok")

\* a restore that leaves the attribute as it is
Patch_restore_skipped(a, patch) == Written(a, "ok")

\* Patch.restore, lines 64-65
Patch_restore(a, patch) == Patch_install(a, patch, patch.original_obj)

\* PatchSet.__init__, lines 90-94: patches is the dict, in insertion order,
\* of the names and their patches
PatchSet(a, kwargs) ==
    [patches |-> [i \in 1..Len(kwargs) |->
                     [name |-> kwargs[i][1],
                      patch |-> from_spec(a, kwargs[i][2])]],
     initialized |-> TRUE,
     extra |-> "none"]

\* self.__patches.keys()
Names(ps) == {ps.patches[i].name : i \in 1..Len(ps.patches)}

\* an install that takes any names
NoneMissing(names, given) == {}

\* PatchSet.install, line 96
MissingPatches(names, given) == names \ given

\* PatchSet.install, line 101
UnexpectedPatches(names, given) == given \ names

RECURSIVE InstallEach(_, _, _)
\* PatchSet.install, lines 106-107: the loop over the patches
InstallEach(a, patches, kwargs) ==
    IF patches = <<>> THEN Written(a, "ok")
    ELSE IF Head(patches).name \notin DOMAIN kwargs
    THEN Written(a, "KeyError")
    ELSE LET done == Patch_install(a, Head(patches).patch,
                                   kwargs[Head(patches).name])
         IN
         IF done.outcome # "ok" THEN done
         ELSE InstallEach(done.attrs, Tail(patches), kwargs)

\* PatchSet.install, lines 95-107
PatchSet_install(a, ps, kwargs) ==
    IF MissingPatches(Names(ps), DOMAIN kwargs) # {}
    THEN Written(a, "ValueError")
    ELSE IF UnexpectedPatches(Names(ps), DOMAIN kwargs) # {}
    THEN Written(a, "ValueError")
    ELSE InstallEach(a, ps.patches, kwargs)

RECURSIVE RestoreEach(_, _)
\* PatchSet.restore, lines 109-111
RestoreEach(a, patches) ==
    IF patches = <<>> THEN Written(a, "ok")
    ELSE LET done == Patch_restore(a, Head(patches).patch) IN
         IF done.outcome # "ok" THEN done
         ELSE RestoreEach(done.attrs, Tail(patches))

\* PatchSet.__getattr__, lines 113-119, for a name that is not one of the
\* object's own attributes
PatchSet_getattr(ps, item) ==
    IF \E i \in 1..Len(ps.patches) : ps.patches[i].name = item
    THEN LET i == CHOOSE i \in 1..Len(ps.patches) : ps.patches[i].name = item
         IN ps.patches[i].patch.original_obj
    ELSE AttributeError

\* a PatchSet whose __init__ never sets the flag
NeverInitialized(ps) == FALSE

\* PatchSet.__setattr__, line 122: self.__initialized
Initialized(ps) == ps.initialized

\* PatchSet.restore, lines 109-111
PatchSet_restore(a, ps) == RestoreEach(a, ps.patches)

\* What the latest call did: `op` ended with `outcome`; names are the names
\* an install was given.  phase is "installed" after an install that
\* returned and "restored" after the restore that follows such an install;
\* before holds the attributes as they were before that install.
PatchObs(op, outcome, names, before, phase) ==
    [op |-> op, outcome |-> outcome, names |-> names, before |-> before,
     phase |-> phase]

NoPatchObs == PatchObs("none", "ok", {}, InitialAttrs, "none")

\* patch_set.install(**kwargs)
Install(kwargs) ==
    LET done == PatchSet_install(attrs, patch_set, kwargs) IN
    /\ attrs' = done.attrs
    /\ patch_obs' =
           IF done.outcome = "ok"
           THEN PatchObs("install", "ok", DOMAIN kwargs, attrs, "installed")
           ELSE PatchObs("install", done.outcome, DOMAIN kwargs,
                         InitialAttrs, "none")
    /\ UNCHANGED <<more_vars, clocks, current_datetime, step, is_locked,
                   event_queue,
                   stack, last, next_id, tf_calls, mark_vars, patch_set>>

\* patch_set.restore()
Restore ==
    LET done == PatchSet_restore(attrs, patch_set) IN
    /\ attrs' = done.attrs
    /\ patch_obs' =
           IF patch_obs.phase = "installed"
           THEN PatchObs("restore", done.outcome, {}, patch_obs.before,
                         "restored")
           ELSE PatchObs("restore", done.outcome, {}, InitialAttrs, "none")
    /\ UNCHANGED <<more_vars, clocks, current_datetime, step, is_locked,
                   event_queue,
                   stack, last, next_id, tf_calls, mark_vars, patch_set>>

\* the test itself assigns an attribute of the module: mod.n = value
Assign(n, value) ==
    /\ attrs' = [attrs EXCEPT !["mod"][n] = value]
    /\ patch_obs' = PatchObs("assign", "ok", {}, InitialAttrs, "none")
    /\ UNCHANGED <<more_vars, clocks, current_datetime, step, is_locked,
                   event_queue,
                   stack, last, next_id, tf_calls, mark_vars, patch_set>>

\* the value the test assigns to the attribute `key` of the PatchSet
AssignedValue(key) ==
    CASE key = "patches" -> <<>>
      [] key = "initialized" -> FALSE
      [] key = "extra" -> "v1"

\* PatchSet.__setattr__, lines 121-127: patch_set.key = value, where key is
\* the name of the dict of patches, of the flag, or any other name
SetAttr(key) ==
    /\ IF Initialized(patch_set)
       THEN /\ patch_obs' = PatchObs("setattr", AttributeError, {},
                                     InitialAttrs, "none")
            /\ UNCHANGED patch_set
       ELSE /\ patch_obs' = PatchObs("setattr", "ok", {}, InitialAttrs,
                                     "none")
            /\ patch_set' = [patch_set EXCEPT ![key] = AssignedValue(key)]
    /\ UNCHANGED <<more_vars, clocks, current_datetime, step, is_locked,
                   event_queue,
                   stack, last, next_id, tf_calls, mark_vars, attrs>>

\* no PatchSet is in use: one without patches
NoPatchSet ==
    /\ attrs = InitialAttrs
    /\ patch_set = PatchSet(InitialAttrs, <<>>)
    /\ patch_obs = NoPatchObs

---------------------------------------------------------------------------
\* The normalizers applied to any object.

\* objects that are neither numbers nor durations
NoneArg == [type |-> "NoneType", v |-> 0]

StrArg == [type |-> "str", v |-> 0]

\* tyminator.clock.from_step, lines 28-32, of an object of any type
from_step_any(s) ==
    IF s.type = "int" THEN TimedeltaArg(from_step(s)) ELSE s

\* tyminator.clock.from_change, lines 35-41, of an object of any type
from_change_any(change) ==
    IF change.type \in {"int", "float"} THEN TimedeltaArg(from_change(change))
    ELSE change

\* pytest_timing.clock.from_step, lines 29-35
pytest_timing_from_step(s) ==
    IF s.type = "int" THEN TimedeltaArg(timedelta_seconds(s))
    ELSE IF s.type = "timedelta" THEN s
    ELSE TypeError

\* pytest_timing.clock.from_change, lines 38-46
pytest_timing_from_change(change) ==
    IF change.type \in {"int", "float"}
    THEN TimedeltaArg(timedelta_seconds(change))
    ELSE IF change.type = "timedelta" THEN change
    ELSE TypeError

\* the step a Clock constructed with the argument s holds, line 73
Clock_step(s) == from_step_any(s)

StepNormalizers ==
    {"tyminator.from_step", "pytest_timing.from_step", "Clock"}

ChangeNormalizers == {"tyminator.from_change", "pytest_timing.from_change"}

\* the normalizer op applied to arg
Normalized(op, arg) ==
    CASE op = "tyminator.from_step" -> from_step_any(arg)
      [] op = "tyminator.from_change" -> from_change_any(arg)
      [] op = "pytest_timing.from_step" -> pytest_timing_from_step(arg)
      [] op = "pytest_timing.from_change" -> pytest_timing_from_change(arg)
      [] op = "Clock" -> Clock_step(arg)

\* what the latest normalization was given and gave
NormObs(op, arg, result) == [op |-> op, arg |-> arg, result |-> result]

NoNormObs == NormObs("none", NoneArg, NoneArg)

\* op(arg) for the argument at hand
Normalize(op) ==
    /\ norm_obs' = NormObs(op, norm_obs.arg, Normalized(op, norm_obs.arg))
    /\ UNCHANGED <<clocks, current_datetime, step, is_locked, event_queue,
                   stack, last, next_id, tf_calls, mark_vars, patch_vars,
                   installs, split_obs, tasks>>

\* the coroutines that call the asynchronous clock
Tasks == {"t1", "t2"}

\* the call of async_elapse a coroutine is suspended in: on `clock`, up to
\* `until`, inside the awaited action of `event`; refused tells that an
\* async_elapse of another coroutine on the clock has failed with LockError
\* meanwhile (observation)
Call(clock, until, event, refused) ==
    [clock |-> clock, until |-> until, event |-> event, refused |-> refused]

\* a coroutine that is not inside a call of the clock
NoCall == Call("none", 0, NoEvent, FALSE)

\* no coroutine is inside a call of the clock
NoTasks == [t \in Tasks |-> NoCall]

\* no advance has been made in two elapses
NoSplitObs == [op |-> "none"]

\* nothing has been normalized, no installed() scope entered, no advance
\* made in two elapses, no coroutine suspended
NoMore ==
    /\ norm_obs = NoNormObs
    /\ installs = <<>>
    /\ split_obs = NoSplitObs
    /\ tasks = NoTasks

---------------------------------------------------------------------------
\* The sleep functions.

\* a delay taken as it is, an int for a float
NoFloat(delay) == FloatArg(delay.v)

\* float(delay), line 193, of an int or a float
float(delay) ==
    IF delay.type = "int" THEN FloatArg(2 * UnitsPerSecond * delay.v)
    ELSE delay

\* loop=None, the default
NoLoop == <<"None">>

\* async_sleep_function, line 189: the guard that raises
\* NotImplementedError
LoopSupplied(loop) == loop # NoLoop

\* an async_sleep_function that takes any delay
AnyDelay(delay) == TRUE

\* async_sleep_function, line 191: isinstance(delay, (int, float))
ValidDelay(delay) == delay.type \in {"int", "float"}

\* what the caller of a sleep function sees when it raises before elapse
SleepRefused(entry, c, outcome, cause, given) ==
    Obs(entry, c, outcome, cause, NoValue, current_datetime[c], FALSE,
        NoEvent, given)

\* async_sleep_function, lines 188-195, on clock c, called through entry
async_sleep_function(c, entry, delay, result, loop) ==
    LET given == <<delay, result, loop>> IN
    IF LoopSupplied(loop)
    THEN /\ last' = SleepRefused(entry, c, "NotImplementedError", "loop",
                                 given)
         /\ UNCHANGED <<current_datetime, is_locked, event_queue, stack>>
    ELSE IF ~ValidDelay(delay)
    THEN /\ last' = SleepRefused(entry, c, "TypeError", "type", given)
         /\ UNCHANGED <<current_datetime, is_locked, event_queue, stack>>
    ELSE elapse_through(c, entry, float(delay), result, given)

SleepOps == {"sleep_function", "async_sleep_function"}

\* an asyncio event loop is running the caller: a sleep function is in
\* progress under it (asyncio.run, or the loop that awaits the coroutine)
RunningLoop == \E i \in 1..Len(stack) : stack[i].entry \in SleepOps

\* sleep_function, lines 185-186; in_loop tells that the caller runs under
\* an event loop, where asyncio.run raises RuntimeError
SleepFunction(c, secs, in_loop) ==
    /\ InCaller
    /\ RunningLoop => in_loop
    /\ IF in_loop
       THEN /\ last' = SleepRefused("sleep_function", c, "RuntimeError",
                                    "running_loop", <<secs, NoValue, NoLoop>>)
            /\ UNCHANGED <<current_datetime, is_locked, event_queue, stack>>
       ELSE async_sleep_function(c, "sleep_function", secs, NoValue, NoLoop)
    /\ tf_calls' = NoCalls
    /\ UNCHANGED <<clocks, step, next_id>>
    /\ UNCHANGED <<mark_vars, patch_vars, more_vars>>

\* await clock.async_sleep_function(delay, result, loop=loop)
AsyncSleepFunction(c, delay, result, loop) ==
    /\ InCaller
    /\ async_sleep_function(c, "async_sleep_function", delay, result, loop)
    /\ tf_calls' = NoCalls
    /\ UNCHANGED <<clocks, step, next_id>>
    /\ UNCHANGED <<mark_vars, patch_vars, more_vars>>

---------------------------------------------------------------------------
\* installed().

\* the modules installed() patches by default, as the test finds them
ModuleAttrs == InitialModuleAttrs

\* the bound method clock.function
BoundMethod(c, function) == c \o "." \o function

\* installed, lines 325-327: the default values of time, sleep and
\* async_sleep
DefaultSpecs ==
    <<<<"time", AttrSpec("time", <<"time">>)>>,
      <<"sleep", AttrSpec("time", <<"sleep">>)>>,
      <<"async_sleep", AttrSpec("asyncio", <<"sleep">>)>>>>

\* installed, lines 337-339: what install is called with
ClockFunctions(c) ==
    [time |-> BoundMethod(c, "time_function"),
     sleep |-> BoundMethod(c, "sleep_function"),
     async_sleep |-> BoundMethod(c, "async_sleep_function")]

\* an installed() scope in progress: its clock, its PatchSet, and (for the
\* properties) the attributes as they were when it was entered
Scope(c, time_functions, entry) ==
    [clock |-> c, time_functions |-> time_functions, entry |-> entry]

\* with installed(clock): entered, lines 332-341.  When install raises,
\* the finally clause restores and the body is not entered.
InstalledEnter(c) ==
    LET time_functions == PatchSet(attrs, DefaultSpecs)
        done == PatchSet_install(attrs, time_functions, ClockFunctions(c))
    IN
    /\ Len(installs) < MaxScopes
    /\ IF done.outcome = "ok"
       THEN /\ attrs' = done.attrs
            /\ installs' = Append(installs, Scope(c, time_functions, attrs))
            /\ patch_obs' = PatchObs("enter", "ok", Names(time_functions),
                                     attrs, "installed")
       ELSE /\ attrs' = PatchSet_restore(done.attrs, time_functions).attrs
            /\ installs' = installs
            /\ patch_obs' = PatchObs("enter", done.outcome,
                                     Names(time_functions), attrs, "none")
    /\ UNCHANGED <<clocks, current_datetime, step, is_locked, event_queue,
                   stack, last, next_id, tf_calls, mark_vars, patch_set,
                   norm_obs, split_obs, tasks>>

\* the body of the innermost installed() scope ends, normally or by
\* raising: line 343
InstalledExit(raising) ==
    /\ installs # <<>>
    /\ LET scope == installs[Len(installs)]
           done == PatchSet_restore(attrs, scope.time_functions)
       IN
       /\ attrs' = done.attrs
       /\ patch_obs' = PatchObs(IF raising THEN "exit_raising" ELSE "exit",
                                done.outcome, {}, scope.entry, "restored")
    /\ installs' = SubSeq(installs, 1, Len(installs) - 1)
    /\ UNCHANGED <<clocks, current_datetime, step, is_locked, event_queue,
                   stack, last, next_id, tf_calls, mark_vars, patch_set,
                   norm_obs, split_obs, tasks>>

\* the body assigns an attribute of a module itself: module.n = value
Rebind(module, n, value) ==
    /\ n \in DOMAIN attrs[module]
    /\ attrs' = [attrs EXCEPT ![module][n] = value]
    /\ patch_obs' = PatchObs("assign", "ok", {}, ModuleAttrs, "none")
    /\ UNCHANGED <<clocks, current_datetime, step, is_locked, event_queue,
                   stack, last, next_id, tf_calls, mark_vars, patch_set,
                   more_vars>>

\* time.time() called: the function bound to the name runs, here the
\* time_function of clock c
CallTime(c) ==
    /\ attrs["time"]["time"] = BoundMethod(c, "time_function")
    /\ TimeFunction(c)

---------------------------------------------------------------------------
\* An advance made in two elapses.

\* a + b for two numbers (an int and a float give a float) or two
\* timedeltas
Sum(a, b) ==
    IF a.type = b.type THEN [type |-> a.type, v |-> a.v + b.v]
    ELSE IF a.type = "int" THEN FloatArg(2 * UnitsPerSecond * a.v + b.v)
    ELSE FloatArg(a.v + 2 * UnitsPerSecond * b.v)

\* a clock at `now` with the queue q whose actions have recorded log, and
\* the outcome of the latest elapse
Run(outcome, now, q, log) ==
    [outcome |-> outcome, now |-> now, queue |-> q, log |-> log]

RECURSIVE run_pending_recording(_, _)
\* __run_pending_events, lines 146-153, when every action is a plain
\* function that appends <<itself, clock.current_datetime>> to the log and
\* returns
run_pending_recording(run, until) ==
    IF Due(run.queue, until)
    THEN LET event == Head(run.queue) IN
         run_pending_recording(
             Run("ok", event.when, Remaining(run.queue),
                 Append(run.log, <<event.action, event.when>>)),
             until)
    ELSE run

\* elapse, lines 155-163, on an unlocked clock with such actions
elapse_recording(run, arg) ==
    LET change == from_change(arg) IN
    IF Rejected(change) THEN [run EXCEPT !.outcome = "ValueError"]
    ELSE LET until == NextDatetime(run.now, change) IN
         [run_pending_recording([run EXCEPT !.outcome = "ok"], until)
              EXCEPT !.now = until]

\* what the advance in two elapses did: `first` after elapse(a), `split`
\* after elapse(b), and `single`, what elapse(a + b) does from the same
\* state
SplitObs(a, b, first, split, single) ==
    [op |-> "split", a |-> a, b |-> b, first |-> first, split |-> split,
     single |-> single]

\* clock.elapse(a); clock.elapse(b) called by the test on clock c, whose
\* queued actions only record
SplitElapse(c, a, b) ==
    /\ stack = <<>>
    /\ ~AlreadyLocked(is_locked, c)
    /\ LET start == Run("ok", current_datetime[c], event_queue, <<>>)
           first == elapse_recording(start, a)
           split == IF first.outcome = "ok" THEN elapse_recording(first, b)
                    ELSE first
           single == elapse_recording(start, Sum(a, b))
       IN
       /\ split.now <= MaxTime
       /\ single.now <= MaxTime
       /\ current_datetime' = [current_datetime EXCEPT ![c] = split.now]
       /\ event_queue' = split.queue
       /\ split_obs' = SplitObs(a, b, first, split, single)
       /\ last' = Plain("elapse", c, split.outcome, "none")
    /\ tf_calls' = NoCalls
    /\ UNCHANGED <<clocks, step, is_locked, stack, next_id, mark_vars,
                   patch_vars, norm_obs, installs, tasks>>

---------------------------------------------------------------------------
\* The asynchronous clock (src/pytest_timing/clock.py).  Its coroutines
\* run in one event loop: a coroutine runs alone from one await that
\* suspends it to the next, and an awaited action suspends it.

\* What a step of coroutine t did: its async_elapse on `clock` ended with
\* `outcome`, or went as far as an awaited action ("running"), aiming at
\* the instant expect; rawneg tells that the argument was negative and
\* refused that another coroutine's async_elapse failed on the locked clock
\* while this call was suspended.
Awaited(t, clock, outcome, cause, expect, rawneg, refused) ==
    Obs("async_elapse", clock, outcome, cause, NoValue, expect, rawneg,
        NoEvent, <<t, refused>>)

\* the clocks' instants and the queue the loop has reached, and the event
\* whose action it is awaiting
Loop(cur, q, event) == [cur |-> cur, queue |-> q, event |-> event]

RECURSIVE async_run_pending_events(_, _, _, _)
\* __run_pending_events, lines 150-158, from the head of the loop to the
\* await of a coroutine action or to the end of the loop; a plain function
\* is called and returns
async_run_pending_events(cur, q, c, until) ==
    IF Due(q, until)
    THEN LET event == Head(q)
             now == Fire(cur, c, event.when) IN
         IF iscoroutinefunction(event.action)
         THEN Loop(now, Remaining(q), event)
         ELSE async_run_pending_events(now, Remaining(q), c, until)
    ELSE Loop(cur, q, NoEvent)

\* async_elapse from the head of the loop, lines 167-168 and 271-272, for
\* the call of coroutine t on clock c up to `until`, with the locks lk
async_elapse_on(t, c, until, refused, lk) ==
    LET loop == async_run_pending_events(current_datetime, event_queue, c,
                                         until) IN
    /\ event_queue' = loop.queue
    /\ IF loop.event # NoEvent
       THEN /\ current_datetime' = loop.cur
            /\ is_locked' = lk
            /\ tasks' = [tasks EXCEPT
                             ![t] = Call(c, until, loop.event, refused)]
            /\ last' = Awaited(t, c, "running", "none", until, FALSE,
                               refused)
       ELSE /\ current_datetime' = Finish(loop.cur, c, until)
            /\ is_locked' = Release(lk, c)
            /\ tasks' = [tasks EXCEPT ![t] = NoCall]
            /\ last' = Awaited(t, c, "ok", "none", until, FALSE, refused)

\* the calls suspended on clock c have seen another call refused
Refuse(calls, c) ==
    [t \in Tasks |->
        IF calls[t].clock = c THEN [calls[t] EXCEPT !.refused = TRUE]
        ELSE calls[t]]

\* async_elapse(arg), lines 160-168, and lock(), lines 264-272
async_elapse(t, c, arg) ==
    LET change == from_change(arg)
        until == NextDatetime(current_datetime[c], change)
    IN
    IF Rejected(change)
    THEN /\ last' = Awaited(t, c, "ValueError", "negative", until,
                            RawNegative(arg), FALSE)
         /\ UNCHANGED <<current_datetime, is_locked, event_queue, tasks>>
    ELSE IF AlreadyLocked(is_locked, c)
    THEN /\ last' = Awaited(t, c, "LockError", "locked", until,
                            RawNegative(arg), FALSE)
         /\ tasks' = Refuse(tasks, c)
         /\ UNCHANGED <<current_datetime, is_locked, event_queue>>
    ELSE /\ until <= MaxTime
         /\ async_elapse_on(t, c, until, FALSE, Acquire(is_locked, c))

\* coroutine t, which is running, awaits clock.async_elapse(arg)
AsyncElapse(t, c, arg) ==
    /\ stack = <<>>
    /\ tasks[t] = NoCall
    /\ async_elapse(t, c, arg)
    /\ tf_calls' = NoCalls
    /\ UNCHANGED <<clocks, step, stack, next_id, mark_vars, patch_vars,
                   norm_obs, installs, split_obs>>

\* the action coroutine t is awaiting returns: line 156, and the loop goes
\* on
AwaitReturn(t) ==
    /\ tasks[t] # NoCall
    /\ async_elapse_on(t, tasks[t].clock, tasks[t].until, tasks[t].refused,
                       is_locked)
    /\ tf_calls' = NoCalls
    /\ UNCHANGED <<clocks, step, stack, next_id, mark_vars, patch_vars,
                   norm_obs, installs, split_obs>>

\* the action coroutine t is awaiting raises exc, which leaves
\* __run_pending_events and async_elapse through the finally of lock()
AwaitRaise(t, exc) ==
    /\ tasks[t] # NoCall
    /\ LET call == tasks[t] IN
       /\ is_locked' = Release(is_locked, call.clock)
       /\ tasks' = [tasks EXCEPT ![t] = NoCall]
       /\ last' = Awaited(t, call.clock, exc, "action", call.until, FALSE,
                          call.refused)
    /\ tf_calls' = NoCalls
    /\ UNCHANGED <<clocks, current_datetime, event_queue, step, stack,
                   next_id, mark_vars, patch_vars, norm_obs, installs,
                   split_obs>>

---------------------------------------------------------------------------
\* The specification.

\* steps the first clock is constructed with: the default 1, and timedeltas
StepArgs == {IntArg(1), TimedeltaArg(0), TimedeltaArg(0 - 1)}

\* arguments of elapse
ChangeArgs ==
    {IntArg(0 - 1), IntArg(1), FloatArg(0 - 1), FloatArg(3), TimedeltaArg(0)}

\* arguments of elapse_steps
StepCounts == {2}

Times == 0..MaxTime

\* exceptions an action raises by itself
ActionExceptions == {"LockError", "RuntimeError"}

\* steps the first clock of the Marks is constructed with
MarkStepArgs == StepArgs \cup {IntArg(2)}

\* sequence numbers of the Marks constructed directly
Seqs == 0..1

\* the Marks of the clocks constructed
Marks == {Mark(c, when, seq) : c \in Clocks, when \in Times, seq \in Seqs}

\* operands of + and - that are not Marks: counts of steps, a duration, a
\* float and an instant
Operands ==
    {IntArg(n) : n \in {0 - 1, 0, 2}} \cup {TimedeltaArg(1), FloatArg(2)}
        \cup {DatetimeArg(1)}

\* Clock.__init__, lines 61-73, and the class attributes of lines 57-59:
\* either c1 = Clock(start, step) alone, or c1 = Clock(start) and
\* c2 = Clock(start)
Constructed ==
    /\ clocks \in {{"c1"}, Clocks}
    /\ current_datetime = [c \in Clocks |-> DEFAULT_CLOCK_START]
    /\ \E s \in StepArgs :
           /\ clocks = Clocks => s = IntArg(1)
           /\ step = [c \in Clocks |->
                         IF c = "c1" THEN from_step(s)
                         ELSE from_step(IntArg(1))]
    /\ is_locked = [c \in Clocks |-> FALSE]
    /\ event_queue = <<>>
    /\ stack = <<>>
    /\ last = Plain("init", "c1", "ok", "none")
    /\ next_id = 0
    /\ tf_calls = NoCalls

\* no Mark has been taken
NoMarks ==
    /\ mark_seq = [c \in Clocks |-> 0]
    /\ marks = <<>>
    /\ mark_obs = NoMarkObs

Init == Constructed /\ NoMarks /\ NoPatchSet /\ NoMore

Next ==
    \/ \E c \in clocks, arg \in ChangeArgs : Elapse(c, arg)
    \/ \E c \in clocks, n \in StepCounts : ElapseSteps(c, n)
    \/ \E c \in clocks : TimeFunction(c)
    \/ \E c \in clocks, a \in Actions, when \in Times : RunAt(c, a, when)
    \/ \E c \in clocks : LockEnter(c)
    \/ LockExit
    \/ ActionReturn
    \/ \E exc \in ActionExceptions : ActionRaise(exc)

Spec == Init /\ [][Next]_vars

\* Two clocks on which marks are taken, by the test and by the scheduled
\* actions, between run_at and elapse calls
MarkInit == Init /\ clocks = Clocks

MarkNext ==
    \/ \E c \in clocks, arg \in ChangeArgs : Elapse(c, arg)
    \/ \E c \in clocks, a \in Actions, when \in Times : RunAt(c, a, when)
    \/ ActionReturn
    \/ \E c \in clocks : TakeMark(c)

MarkSpec == MarkInit /\ [][MarkNext]_vars

\* Two Marks constructed on two clocks, the first clock with any step, and
\* the operators applied to them
MarkOpsInit ==
    /\ clocks = Clocks
    /\ current_datetime = [c \in Clocks |-> DEFAULT_CLOCK_START]
    /\ \E s \in MarkStepArgs :
           step = [c \in Clocks |->
                      IF c = "c1" THEN from_step(s) ELSE from_step(IntArg(1))]
    /\ is_locked = [c \in Clocks |-> FALSE]
    /\ event_queue = <<>>
    /\ stack = <<>>
    /\ last = Plain("init", "c1", "ok", "none")
    /\ next_id = 0
    /\ tf_calls = NoCalls
    /\ mark_seq = [c \in Clocks |-> 0]
    /\ \E m1, m2 \in Marks : marks = <<m1, m2>>
    /\ mark_obs = NoMarkObs
    /\ NoPatchSet
    /\ NoMore

MarkOpsNext ==
    \/ \E op \in ComparisonOps, i, j \in 1..Len(marks) : Compared(op, i, j)
    \/ \E i, j \in 1..Len(marks) :
           \E other \in Operands \cup {marks[j]} : Added(i, other)
    \/ \E i, j \in 1..Len(marks) :
           \E other \in Operands \cup {marks[j]} : Subtracted(i, other)
    \/ \E i \in 1..Len(marks), other \in Operands : RSubtracted(other, i)

MarkOpsSpec == MarkOpsInit /\ [][MarkOpsNext]_vars

\* the dotted names that are patched: mod.A, mod.y and mod.A.x
QualifiedNames == {<<"A">>, <<"y">>, <<"A", "x">>}

\* the keyword names of the patches, in the order the PatchSet is given
\* them, and one name more
PatchNames == <<"p", "q", "r">>

\* the names an install is called with
KwNames == {PatchNames[i] : i \in 1..Len(PatchNames)}

\* the objects installed or assigned in place of the originals
Replacements == {"B", "v1"}

\* what the test itself assigns to mod.n: in the place of A an object with
\* the same attributes, in the place of y anything
Assignable(n) == IF n = "A" THEN {"B"} ELSE Replacements

\* PatchSet(p=Spec("mod", ...), q=Spec("mod", ...)) constructed with the
\* attributes as the test finds them
PatchInit ==
    /\ Constructed
    /\ clocks = {"c1"}
    /\ step["c1"] = from_step(IntArg(1))
    /\ NoMarks
    /\ attrs = InitialAttrs
    /\ \E n \in 1..MaxPatches :
           \E qn \in [1..n -> QualifiedNames] :
               patch_set = PatchSet(InitialAttrs,
                                    [i \in 1..n |->
                                        <<PatchNames[i],
                                          AttrSpec("mod", qn[i])>>])
    /\ patch_obs = NoPatchObs
    /\ NoMore

PatchNext ==
    \/ \E given \in SUBSET KwNames :
           \E kwargs \in [given -> Replacements] : Install(kwargs)
    \/ Restore
    \/ \E n \in {"A", "y"} : \E value \in Assignable(n) : Assign(n, value)
    \/ \E key \in {"patches", "initialized", "extra"} : SetAttr(key)

PatchSpec == PatchInit /\ [][PatchNext]_vars

\* numbers of steps run_in_steps is called with
ScheduleSteps == {0 - 1, 0, 1, 2}

\* One clock, constructed with any step, on which actions are scheduled
\* with run_at, run_in and run_in_steps between elapse calls
SchedInit == Init /\ clocks = {"c1"}

SchedNext ==
    \/ \E c \in clocks, a \in Actions, when \in Times : RunAt(c, a, when)
    \/ \E c \in clocks, a \in Actions, change \in ChangeArgs :
           RunIn(c, a, change)
    \/ \E c \in clocks, a \in Actions, n \in ScheduleSteps :
           RunInSteps(c, a, n)
    \/ \E c \in clocks, arg \in ChangeArgs : Elapse(c, arg)
    \/ ActionReturn

SchedSpec == SchedInit /\ [][SchedNext]_vars

\* largest number among the arguments given to the normalizers
MaxArg == 3

\* the objects given to the normalizers: integers, floats (in halves),
\* durations, None, a string and a datetime
NormArgs ==
    {IntArg(n) : n \in (0 - MaxArg)..MaxArg}
        \cup {FloatArg(h) : h \in (0 - MaxArg)..MaxArg}
        \cup {TimedeltaArg(u) : u \in (0 - MaxArg)..MaxArg}
        \cup {NoneArg, StrArg, DatetimeArg(DEFAULT_CLOCK_START)}

\* An object, to which the normalizers are applied
NormInit ==
    /\ Constructed
    /\ clocks = {"c1"}
    /\ step["c1"] = from_step(IntArg(1))
    /\ NoMarks
    /\ NoPatchSet
    /\ \E arg \in NormArgs : norm_obs = NormObs("none", arg, NoneArg)
    /\ installs = <<>>
    /\ split_obs = NoSplitObs
    /\ tasks = NoTasks

NormNext ==
    \E op \in StepNormalizers \cup ChangeNormalizers : Normalize(op)

NormSpec == NormInit /\ [][NormNext]_vars

\* delays the sleep functions are called with: numbers, and objects of
\* other types
Delays == {IntArg(0), IntArg(1), FloatArg(3), NoneArg, TimedeltaArg(1)}

\* results and loop arguments given to async_sleep_function
ResultsAndLoops ==
    {<<NoValue, NoLoop>>, <<<<"a-result">>, NoLoop>>,
     <<<<"a-result">>, <<"loop">>>>}

\* One clock with the default step, on which the sleep functions are
\* called, by the test and by scheduled actions
SleepInit ==
    /\ Init
    /\ clocks = {"c1"}
    /\ step["c1"] = from_step(IntArg(1))

SleepNext ==
    \/ \E c \in clocks, secs \in Delays, in_loop \in BOOLEAN :
           SleepFunction(c, secs, in_loop)
    \/ \E c \in clocks, delay \in Delays, rl \in ResultsAndLoops :
           AsyncSleepFunction(c, delay, rl[1], rl[2])
    \/ \E c \in clocks, a \in Actions, when \in Times :
           next_id < MaxSleepEvents /\ RunAt(c, a, when)
    \/ ActionReturn
    \/ \E exc \in ActionExceptions : ActionRaise(exc)

SleepSpec == SleepInit /\ [][SleepNext]_vars

\* what the body of a scope binds the names to
OtherFunctions == {"other"}

\* Two clocks, installed in scopes that nest, whose bodies call time.time
\* and bind the names themselves
InstalledInit ==
    /\ Constructed
    /\ clocks = Clocks
    /\ NoMarks
    /\ attrs = ModuleAttrs
    /\ patch_set = PatchSet(ModuleAttrs, <<>>)
    /\ patch_obs = NoPatchObs
    /\ NoMore

InstalledNext ==
    \/ \E c \in clocks : InstalledEnter(c)
    \/ \E raising \in BOOLEAN : InstalledExit(raising)
    \/ \E module \in DOMAIN ModuleAttrs, n \in {"time", "sleep"},
              value \in OtherFunctions :
           Rebind(module, n, value)
    \/ \E c \in clocks : CallTime(c)

InstalledSpec == InstalledInit /\ [][InstalledNext]_vars

\* the plain functions
PlainActions == {a \in Actions : ~iscoroutinefunction(a)}

\* the queues two successful run_at calls of the test leave; the events
\* scheduled before the behaviour starts are numbered 0 and downwards
ScheduledQueues ==
    {sort(q) : q \in {qq \in {<<Event(0 - 1, w1, a1, "c1"),
                               Event(0, w2, a2, "c1")>> :
                                 w1, w2 \in Times, a1, a2 \in PlainActions} :
                          ~SortRaises(qq)}}

\* One clock with two events in its queue; the actions that an elapse
\* invokes schedule further events while they run
InActionInit ==
    /\ clocks = {"c1"}
    /\ current_datetime = [c \in Clocks |-> DEFAULT_CLOCK_START]
    /\ step = [c \in Clocks |-> from_step(IntArg(1))]
    /\ is_locked = [c \in Clocks |-> FALSE]
    /\ event_queue \in ScheduledQueues
    /\ stack = <<>>
    /\ last = Plain("init", "c1", "ok", "none")
    /\ next_id = 0
    /\ tf_calls = NoCalls
    /\ NoMarks /\ NoPatchSet /\ NoMore

InActionNext ==
    \/ \E c \in clocks, arg \in ChangeArgs : Elapse(c, arg)
    \/ \E c \in clocks, a \in Actions, when \in Times :
           /\ stack # <<>>
           /\ next_id < MaxScheduledByActions
           /\ RunAt(c, a, when)
    \/ ActionReturn
    \/ \E exc \in ActionExceptions : ActionRaise(exc)

InActionSpec == InActionInit /\ [][InActionNext]_vars

\* changes an action schedules itself again in
Delays_of_actions == {IntArg(0), IntArg(1)}

\* One clock; the test schedules events and elapses, and the actions
\* schedule themselves again while they run.  Every action body ends:
\* the running action returns unless it raises.
RescheduleNext ==
    \/ \E c \in clocks, arg \in ChangeArgs : Elapse(c, arg)
    \/ \E c \in clocks, a \in PlainActions, when \in Times :
           /\ stack = <<>>
           /\ next_id < MaxTestEvents
           /\ RunAt(c, a, when)
    \/ \E change \in Delays_of_actions : Reschedule(change)
    \/ ActionReturn
    \/ \E exc \in ActionExceptions : ActionRaise(exc)

RescheduleSpec ==
    /\ SchedInit
    /\ [][RescheduleNext]_vars
    /\ WF_vars(ActionReturn)

\* changes an advance is made of
SplitArgs ==
    {IntArg(0), IntArg(1), FloatArg(1), FloatArg(2), TimedeltaArg(1)}

\* the pairs of them that can be added
SplitPairs ==
    {p \in SplitArgs \X SplitArgs :
        (p[1].type = "timedelta") <=> (p[2].type = "timedelta")}

\* One clock; the test schedules actions that only record, and advances
\* the clock in two elapses
SplitNext ==
    \/ \E c \in clocks, a \in PlainActions, when \in Times : RunAt(c, a, when)
    \/ \E c \in clocks, p \in SplitPairs : SplitElapse(c, p[1], p[2])

SplitSpec == SchedInit /\ [][SplitNext]_vars

\* arguments of async_elapse
AsyncArgs == {IntArg(0 - 1), IntArg(0), IntArg(1), FloatArg(2)}

\* One or two asynchronous clocks of the default step; the test schedules
\* events, and two coroutines advance the clocks
AsyncInit == Init /\ step["c1"] = from_step(IntArg(1))

AsyncNext ==
    \/ \E c \in clocks, a \in Actions, when \in Times : RunAt(c, a, when)
    \/ \E t \in Tasks, c \in clocks, arg \in AsyncArgs :
           AsyncElapse(t, c, arg)
    \/ \E t \in Tasks : AwaitReturn(t)
    \/ \E t \in Tasks, exc \in ActionExceptions : AwaitRaise(t, exc)

AsyncSpec == AsyncInit /\ [][AsyncNext]_vars

---------------------------------------------------------------------------
\* Properties.

ElapseOps == {"elapse", "elapse_steps"}

\* the bodies of scheduled actions that are running
RunningActions == {stack[i] : i \in {j \in 1..Len(stack) : stack[j].kind = "action"}}

\* e1 is scheduled for an earlier instant than e2, or for the same instant
\* and was scheduled first
Before(e1, e2) ==
    e1.when < e2.when \/ (e1.when = e2.when /\ e1.id < e2.id)

\* C1: within an elapse, events fire in ascending order of `when`, those of
\* one instant in the order they were scheduled, and run_at accepts any
\* action at an instant that is not in the past, whatever is queued.
C1_FiringOrder ==
    /\ \A fr \in RunningActions :
           fr.prev # NoEvent => Before(fr.prev, fr.event)
    /\ (last.op = "run_at" /\ last.expect >= current_datetime[last.clock])
           => last.outcome = "ok"

\* C2, as amended: an elapse or elapse_steps with a change >= 0 on an
\* unlocked clock, in which no action raises and no due action is a
\* coroutine function, returns normally with current_datetime equal to the
\* instant before the call plus the change.
C2_ElapseAdvancesExactly ==
    (last.op \in ElapseOps /\ last.cause = "none")
        => /\ last.outcome = "ok"
           /\ current_datetime[last.clock] = last.expect

\* an elapse has returned after firing an event at an instant before its
\* target
C2_Witness ==
    /\ last.op \in ElapseOps
    /\ last.outcome = "ok"
    /\ last.prev # NoEvent
    /\ last.prev.when < current_datetime[last.clock]

\* C2, as claimed: an elapse or elapse_steps with a change >= 0 on an
\* unlocked clock in which no action raises ends with current_datetime
\* equal to the instant before the call plus the change.
C2_Original ==
    (last.op \in ElapseOps /\ last.cause \notin {"negative", "locked", "action"})
        => /\ last.outcome = "ok"
           /\ current_datetime[last.clock] = last.expect

\* C3: when an elapse that started on an unlocked clock has returned or
\* raised, is_locked is false; and is_locked is true exactly while an
\* elapse or a lock() scope of the clock is in progress.
C3_LockReleased ==
    /\ (last.op \in ElapseOps \cup {"time_function"}
            /\ last.cause \in {"none", "action", "coroutine"})
           => ~is_locked[last.clock]
    /\ \A c \in Clocks :
           is_locked[c] <=>
               \E i \in 1..Len(stack) :
                   stack[i].kind \in {"elapse", "lock"} /\ stack[i].clock = c

\* an elapse has just been ended by an action that raised
C3_Witness ==
    /\ last.op \in ElapseOps
    /\ last.cause = "action"
    /\ last.outcome \in Exceptions
    /\ ~is_locked[last.clock]

C5_NegativeChangeRejected ==
    (last.op = "elapse" /\ last.rawneg) => last.outcome = "ValueError"

\* C6: a running action was invoked with the clock it was scheduled on,
\* whose current_datetime is the event's `when` and which is locked.
C6_ActionSeesItsClock ==
    \A fr \in RunningActions :
        /\ fr.clock = fr.event.owner
        /\ current_datetime[fr.clock] = fr.event.when
        /\ is_locked[fr.clock]

\* C7: no step decreases a clock's current_datetime.
C7_NeverDecreases ==
    [][\A c \in Clocks : current_datetime'[c] >= current_datetime[c]]_vars

\* C8, as amended: on a clock whose step is not negative, after k calls of
\* time_function in a row, each made with the clock unlocked and the queue
\* empty, current_datetime is the instant before the first call plus
\* k * step, and the last call returned the timestamp of that instant plus
\* (k - 1) * step.
C8_TimeFunctionRun ==
    (tf_calls.k > 0 /\ step[tf_calls.clock] >= 0)
        => /\ last.op = "time_function"
           /\ last.outcome = "ok"
           /\ current_datetime[tf_calls.clock]
                  = tf_calls.start + tf_calls.k * step[tf_calls.clock]
           /\ last.value
                  = Timestamp(tf_calls.start
                              + (tf_calls.k - 1) * step[tf_calls.clock])

\* two calls in a row on a clock that advances
C8_Witness ==
    /\ tf_calls.k = 2
    /\ step[tf_calls.clock] > 0
    /\ last.op = "time_function"

\* C8, as claimed: the same for every clock.
C8_Original ==
    tf_calls.k > 0
        => /\ last.op = "time_function"
           /\ last.outcome = "ok"
           /\ current_datetime[tf_calls.clock]
                  = tf_calls.start + tf_calls.k * step[tf_calls.clock]
           /\ last.value
                  = Timestamp(tf_calls.start
                              + (tf_calls.k - 1) * step[tf_calls.clock])

\* C9: time_function called while the clock is locked returns
\* current_timestamp, without raising, and changes neither
\* current_datetime nor the queue nor the lock.
C9_LockedTimeFunction ==
    [][\A c \in Clocks :
          (/\ is_locked[c]
           /\ last'.op = "time_function"
           /\ last'.clock = c
           /\ stack' = stack)
          => /\ last'.outcome = "ok"
             /\ last'.value = Timestamp(current_datetime[c])
             /\ UNCHANGED <<current_datetime, event_queue, is_locked>>]_vars

\* C10: run_at at exactly the current instant is accepted; the action runs
\* with the clock at that instant; and an elapse that returns leaves no
\* event behind that was due.
C10_RunAtNow ==
    /\ (last.op = "run_at" /\ last.expect = current_datetime[last.clock])
           => last.outcome = "ok"
    /\ \A fr \in RunningActions :
           current_datetime[fr.clock] = fr.event.when
    /\ (last.op \in ElapseOps /\ last.outcome = "ok")
           => \A i \in 1..Len(event_queue) :
                  event_queue[i].when > current_datetime[last.clock]

\* C11: run_at with an instant earlier than the clock's current_datetime
\* raises ValueError and leaves the queue, its events and their order, as
\* it was.
C11_PastRunAtRefused ==
    [][(/\ last'.op = "run_at"
        /\ last'.expect < current_datetime[last'.clock])
       => /\ last'.outcome = "ValueError"
          /\ event_queue' = event_queue]_vars

\* a run_at in the past has been refused while an event was queued
C11_Witness ==
    /\ last.op = "run_at"
    /\ last.outcome = "ValueError"
    /\ last.expect < current_datetime[last.clock]
    /\ event_queue # <<>>

\* the step in which the running action raises, ending an elapse or
\* elapse_steps
AbortsElapse ==
    /\ stack # <<>>
    /\ Top(stack).kind = "action"
    /\ last'.cause = "action"
    /\ last'.op \in ElapseOps

\* C12, as amended: when a scheduled action raises during an elapse, the
\* exception reaches the caller of elapse at once, no further action is
\* invoked in that elapse, the event whose action raised is gone from the
\* queue, and the events that were still queued, due or not, stay queued
\* as they were.
C12_ActionRaiseAborts ==
    [][AbortsElapse
       => /\ last'.outcome \in ActionExceptions
          /\ stack' = Pop(Pop(stack))
          /\ event_queue' = event_queue
          /\ \A i \in 1..Len(event_queue') :
                 event_queue'[i].id # Top(stack).event.id]_vars

\* an elapse has just been ended by an action that raised, with an event
\* left in the queue that the elapse was to reach
C12_Witness ==
    /\ last.op \in ElapseOps
    /\ last.cause = "action"
    /\ last.outcome \in ActionExceptions
    /\ \E i \in 1..Len(event_queue) : event_queue[i].when <= last.expect

\* C12, as claimed: the same, and the events left due are not fired by a
\* later elapse unless they are scheduled again; in particular the step
\* that follows the aborted elapse does not fire the first of them.
C12_Original ==
    [][/\ AbortsElapse
          => /\ last'.outcome \in ActionExceptions
             /\ stack' = Pop(Pop(stack))
             /\ event_queue' = event_queue
       /\ (/\ last.op \in ElapseOps
           /\ last.cause = "action"
           /\ Due(event_queue, last.expect))
          => ~(last'.op = "invoke" /\ event_queue' = Tail(event_queue))]_vars

\* C13: of two Marks taken from the same clock, the one taken first
\* compares strictly less than the one taken later, and their sequence
\* numbers increase.
C13_MarksOrdered ==
    \A i, j \in 1..Len(marks) :
        (i < j /\ marks[i].clock = marks[j].clock)
            => /\ Compare("lt", marks[i], marks[j]) = Bool(TRUE)
               /\ marks[i].seq < marks[j].seq

\* C14: <, >, <= and >= between two Marks of different clocks raise
\* TypeError, whatever their instants and sequence numbers.
C14_OtherClockNotOrdered ==
    (/\ mark_obs.op \in ComparisonOps
     /\ mark_obs.left.clock # mark_obs.right.clock)
        => mark_obs.result = TypeError

\* two Marks of different clocks with the same instant and sequence number
\* have been compared
C14_Witness ==
    /\ mark_obs.op \in ComparisonOps
    /\ mark_obs.left.clock # mark_obs.right.clock
    /\ mark_obs.left.when = mark_obs.right.when
    /\ mark_obs.left.seq = mark_obs.right.seq
    /\ mark_obs.result = TypeError

\* C15: subtracting a Mark of a different clock from a Mark raises
\* TypeError.
C15_OtherClockNotSubtracted ==
    (/\ mark_obs.op = "sub"
     /\ mark_obs.right.type = "Mark"
     /\ mark_obs.left.clock # mark_obs.right.clock)
        => mark_obs.result = TypeError

\* C16: a Mark m of a clock with step s plus an integer n is m.when + s * n,
\* and m minus n is m.when - s * n.
C16_IntegerCountsSteps ==
    /\ (mark_obs.op = "add" /\ mark_obs.right.type = "int")
           => mark_obs.result
                  = DatetimeArg(mark_obs.left.when
                                + step[mark_obs.left.clock] * mark_obs.right.v)
    /\ (mark_obs.op = "sub" /\ mark_obs.right.type = "int")
           => mark_obs.result
                  = DatetimeArg(mark_obs.left.when
                                - step[mark_obs.left.clock] * mark_obs.right.v)

\* the object the patch's dotted name leads to, from the module, with the
\* attributes a
Targeted(a, patch) == get_obj(a, patch.spec)

\* C17: when install, called with the configured names, is followed by
\* restore, every targeted attribute is equal to the value it had just
\* before the install.
C17_InstallRestoreRoundTrip ==
    patch_obs.phase = "restored"
        => /\ patch_obs.outcome = "ok"
           /\ \A i \in 1..Len(patch_set.patches) :
                  Targeted(attrs, patch_set.patches[i].patch)
                      = Targeted(patch_obs.before, patch_set.patches[i].patch)

\* C18: install called with a set of names that is not the configured one
\* raises ValueError and leaves every attribute as it was.
C18_WrongNamesRefused ==
    [][(patch_obs'.op = "install" /\ patch_obs'.names # Names(patch_set))
       => /\ patch_obs'.outcome = "ValueError"
          /\ attrs' = attrs]_vars

\* an install with a name missing and a name too many has been refused
\* after the attributes had been changed
C18_Witness ==
    /\ patch_obs.op = "install"
    /\ patch_obs.outcome = "ValueError"
    /\ Names(patch_set) \ patch_obs.names # {}
    /\ patch_obs.names \ Names(patch_set) # {}
    /\ attrs # InitialAttrs

\* C19: restore returns with every targeted attribute equal to the value
\* captured at construction, whatever the attributes held and whether or
\* not install was called, and a second restore changes nothing.
C19_RestoreToOriginal ==
    [][patch_obs'.op = "restore"
       => /\ patch_obs'.outcome = "ok"
          /\ \A i \in 1..Len(patch_set.patches) :
                 Targeted(attrs', patch_set.patches[i].patch)
                     = patch_set.patches[i].patch.original_obj
          /\ patch_obs.op = "restore" => attrs' = attrs]_vars

\* C20: an assignment to an attribute of the PatchSet raises
\* AttributeError, and no call changes the configured names or the
\* original objects the named accessors return.
C20_PatchSetImmutable ==
    [][/\ patch_obs'.op = "setattr" => patch_obs'.outcome = AttributeError
       /\ Names(patch_set') = Names(patch_set)
       /\ \A n \in KwNames :
              PatchSet_getattr(patch_set', n) = PatchSet_getattr(patch_set, n)
       /\ patch_set' = patch_set]_vars

\* an assignment to the PatchSet has been refused while its patches were
\* installed
C20_Witness ==
    /\ patch_obs.op = "setattr"
    /\ patch_obs.outcome = AttributeError
    /\ Len(patch_set.patches) = MaxPatches
    /\ attrs # InitialAttrs

\* C22: a lock() on a clock that is locked raises LockError and leaves
\* the lock held and the scopes in progress as they were; a lock() on an
\* unlocked clock holds the lock; and when the body of a lock() scope
\* ends, normally or by raising, the lock is released.
C22_NestedLockRefused ==
    [][/\ (last'.op = "lock" /\ is_locked[last'.clock])
           => /\ last'.outcome = "LockError"
              /\ is_locked' = is_locked
              /\ stack' = stack
       /\ (last'.op = "lock" /\ ~is_locked[last'.clock])
           => /\ last'.outcome = "ok"
              /\ is_locked'[last'.clock]
       /\ last'.op = "unlock"
           => /\ Top(stack).kind = "lock"
              /\ ~is_locked'[last'.clock]
              /\ stack' = Pop(stack)]_vars

\* a lock() inside the body of a lock() scope of the same clock has been
\* refused, and the outer scope still holds the lock
C22_Witness ==
    /\ last.op = "lock"
    /\ last.outcome = "LockError"
    /\ stack # <<>>
    /\ Top(stack).kind = "lock"
    /\ Top(stack).clock = last.clock
    /\ is_locked[last.clock]

\* C28: a time_function call that an action's exception ended raises that
\* exception, a LockError included; and a time_function call that returns
\* without having found the clock locked has advanced the clock by one
\* step and returns the timestamp of the instant before the advance.
C28_TimeFunctionNeverSwallows ==
    /\ (last.op = "time_function" /\ last.cause = "action")
           => last.outcome \in ActionExceptions
    /\ (last.op = "time_function" /\ last.outcome = "ok"
            /\ last.cause # "locked")
           => /\ current_datetime[last.clock] = last.expect
              /\ last.value = Timestamp(last.expect - step[last.clock])

\* the actions that are coroutine functions
CoroutineFunctions == {"co"}

\* C29: no coroutine function is ever invoked as an action; and the step
\* of an elapse that takes a due event whose action is a coroutine function
\* from the queue ends the call with NotImplementedError, invokes nothing
\* and leaves the clock unlocked.
C29_CoroutineActionRefused ==
    [][/\ \A i \in 1..Len(stack') :
              stack'[i].kind = "action"
                  => stack'[i].event.action \notin CoroutineFunctions
       /\ (/\ event_queue # <<>>
           /\ Head(event_queue).action \in CoroutineFunctions
           /\ event_queue' = Tail(event_queue))
          => /\ last'.outcome = "NotImplementedError"
             /\ last'.op \in ElapseOps \cup {"time_function"}
             /\ ~is_locked'[last'.clock]
             /\ Len(stack') <= Len(stack)
             /\ current_datetime'[last'.clock] = Head(event_queue).when]_vars

\* an elapse that had invoked an action has then come upon a coroutine
\* function and raised
C29_Witness ==
    /\ last.op \in ElapseOps
    /\ last.outcome = "NotImplementedError"
    /\ last.cause = "coroutine"
    /\ last.prev # NoEvent
    /\ ~is_locked[last.clock]

\* C30: an event leaves the queue only in an elapse of the clock it was
\* scheduled on, and every running action was invoked with the clock its
\* event was scheduled on.
C30_OwnEventQueue ==
    [][/\ (event_queue # <<>> /\ event_queue' = Tail(event_queue))
           => last'.clock = Head(event_queue).owner
       /\ \A i \in 1..Len(stack') :
              stack'[i].kind = "action"
                  => stack'[i].clock = stack'[i].event.owner]_vars

\* the step has the effect of run_at(action, when) on clock c, for some
\* action
SameAsRunAt(c, when) ==
    IF when < current_datetime[c]
    THEN /\ last'.outcome = "ValueError"
         /\ event_queue' = event_queue
    ELSE \E a \in Actions :
             LET q == Append(event_queue, Event(next_id + 1, when, a, c)) IN
             /\ event_queue' = sort(q)
             /\ last'.outcome = IF SortRaises(q) THEN "TypeError" ELSE "ok"

\* C27: run_in_steps(action, n) has the effect of
\* run_at(action, current_datetime + step * n), and with n < 0 it raises
\* ValueError and leaves the queue as it was; run_in(action, change) has
\* the effect of run_at(action, current_datetime + change).
C27_RunInStepsIsRunAt ==
    [][/\ last'.op = "run_in_steps"
           => /\ SameAsRunAt(last'.clock,
                             current_datetime[last'.clock]
                                 + step[last'.clock] * last'.value.v)
              /\ last'.value.v < 0
                     => /\ last'.outcome = "ValueError"
                        /\ event_queue' = event_queue
       /\ last'.op = "run_in"
           => SameAsRunAt(last'.clock,
                          current_datetime[last'.clock]
                              + from_change(last'.value))]_vars

\* C25: a step normalizer, and the Clock constructor, given an integer
\* that is zero or negative fails with a domain error (ValueError), and
\* given a duration of any value returns that duration.
C25_IntegerStepPositive ==
    norm_obs.op \in StepNormalizers
        => /\ (norm_obs.arg.type = "int" /\ norm_obs.arg.v <= 0)
                  => norm_obs.result.type = "ValueError"
           /\ norm_obs.arg.type = "timedelta"
                  => norm_obs.result = norm_obs.arg

\* C26: every normalizer given an object that is not an integer, a float
\* (for a change) or a duration raises TypeError.
C26_OtherTypesRejected ==
    /\ (norm_obs.op \in StepNormalizers
            /\ norm_obs.arg.type \notin {"int", "timedelta"})
           => norm_obs.result = TypeError
    /\ (norm_obs.op \in ChangeNormalizers
            /\ norm_obs.arg.type \notin {"int", "float", "timedelta"})
           => norm_obs.result = TypeError

\* the duration of `delay` seconds, a number, at the resolution
Seconds(delay) ==
    IF delay.type = "int" THEN delay.v * UnitsPerSecond
    ELSE RoundHalfEven(delay.v)

C24_BadSleepRefused ==
    [][(/\ last'.op = "async_sleep_function"
        /\ \/ last'.given[3] # <<"None">>
           \/ last'.given[1].type \notin {"int", "float"})
       => /\ last'.outcome = IF last'.given[3] # <<"None">>
                             THEN "NotImplementedError" ELSE "TypeError"
          /\ UNCHANGED <<current_datetime, is_locked, event_queue, stack>>]_vars

\* an async_sleep_function given a timedelta has raised TypeError while an
\* event was due
C24_Witness ==
    /\ last.op = "async_sleep_function"
    /\ last.outcome = "TypeError"
    /\ last.given[1].type = "timedelta"
    /\ ~is_locked[last.clock]
    /\ Due(event_queue, current_datetime[last.clock] + last.given[1].v)

\* the three names installed() binds, as <<module, attribute, keyword>>
Bindings ==
    {<<"time", "time", "time">>, <<"time", "sleep", "sleep">>,
     <<"asyncio", "sleep", "async_sleep">>}

\* C21: when an installed(clock) scope has been entered, time.time,
\* time.sleep and asyncio.sleep are the clock's time_function,
\* sleep_function and async_sleep_function, and the PatchSet yielded
\* gives the values the three had on entry; when the scope is left,
\* normally or because its body raised, the three have the values they had
\* on entry, which are those the PatchSet gives.
C21_InstalledRoundTrip ==
    [][/\ Len(installs') > Len(installs)
           => /\ patch_obs'.op = "enter"
              /\ patch_obs'.outcome = "ok"
              /\ LET scope == installs'[Len(installs')] IN
                 /\ attrs'["time"]["time"]
                        = scope.clock \o ".time_function"
                 /\ attrs'["time"]["sleep"]
                        = scope.clock \o ".sleep_function"
                 /\ attrs'["asyncio"]["sleep"]
                        = scope.clock \o ".async_sleep_function"
                 /\ scope.entry = attrs
                 /\ \A b \in Bindings :
                        PatchSet_getattr(scope.time_functions, b[3])
                            = attrs[b[1]][b[2]]
       /\ Len(installs') < Len(installs)
           => /\ patch_obs'.op \in {"exit", "exit_raising"}
              /\ patch_obs'.outcome = "ok"
              /\ LET scope == installs[Len(installs)] IN
                 \A b \in Bindings :
                     /\ attrs'[b[1]][b[2]] = scope.entry[b[1]][b[2]]
                     /\ attrs'[b[1]][b[2]]
                            = PatchSet_getattr(scope.time_functions, b[3])]_vars

\* a scope entered inside the scope of another clock has been left because
\* its body raised, after time.time had been called and the clocks had
\* advanced: the names are bound to the functions of the outer clock again
C21_Witness ==
    /\ patch_obs.op = "exit_raising"
    /\ Len(installs) = 1
    /\ patch_obs.before["time"]["time"]
           = installs[1].clock \o ".time_function"
    /\ attrs["time"]["time"] = installs[1].clock \o ".time_function"
    /\ \A c \in Clocks : current_datetime[c] > DEFAULT_CLOCK_START

\* C31: in every reachable state the event queue is in ascending order of
\* `when`: no queued event comes before a queued event with a strictly
\* earlier `when`.
C31_QueueAscending ==
    \A i, j \in 1..Len(event_queue) :
        i < j => event_queue[i].when <= event_queue[j].when

\* C32: every event in the queue has a `when` that is not earlier than the
\* current_datetime of the clock it was scheduled on.
C32_NoEventInThePast ==
    \A i \in 1..Len(event_queue) :
        event_queue[i].when >= current_datetime[event_queue[i].owner]

\* C33: an event is invoked at most once, for it leaves the queue when it
\* is invoked and the queued events are all different; when an elapse with
\* the target T returns normally, no event with when <= T is left in the
\* queue, and the events with when > T that were queued are still queued.
C33_FiredExactlyOnce ==
    [][/\ \A i, j \in 1..Len(event_queue') :
              event_queue'[i].id = event_queue'[j].id => i = j
       /\ last'.op = "invoke"
           => /\ event_queue # <<>>
              /\ Top(stack').event = Head(event_queue)
              /\ \A i \in 1..Len(event_queue') :
                     event_queue'[i].id # Top(stack').event.id
       /\ (last'.op \in ElapseOps /\ last'.outcome = "ok"
               /\ last'.cause = "none")
           => /\ \A i \in 1..Len(event_queue') :
                     event_queue'[i].when > last'.expect
              /\ \A i \in 1..Len(event_queue) :
                     event_queue[i].when > last'.expect
                         => \E j \in 1..Len(event_queue') :
                                event_queue'[j] = event_queue[i]]_vars

\* C37: a run_at either returns normally with exactly one event added to
\* the queue, or raises and leaves the queue as it was; and a run_at of an
\* instant that is not in the past and already has a queued event returns
\* normally.
C37_RunAtAtomic ==
    [][last'.op = "run_at"
       => /\ \/ /\ last'.outcome = "ok"
                /\ Len(event_queue') = Len(event_queue) + 1
             \/ /\ last'.outcome \in Exceptions
                /\ event_queue' = event_queue
          /\ (/\ last'.expect >= current_datetime[last'.clock]
              /\ \E i \in 1..Len(event_queue) :
                     event_queue[i].when = last'.expect)
                 => last'.outcome = "ok"]_vars

\* C36: when a scheduled action raises and so ends the elapse that invoked
\* it, the clock's current_datetime is the `when` of that action's event,
\* the event is not in the queue, and the clock is not locked.
C36_AbortLeavesClockAtEvent ==
    [][(/\ stack # <<>>
        /\ Top(stack).kind = "action"
        /\ last'.cause = "action")
       => LET event == Top(stack).event
              c == Top(Pop(stack)).clock IN
          /\ stack' = Pop(Pop(stack))
          /\ last'.clock = c
          /\ current_datetime'[c] = event.when
          /\ \A i \in 1..Len(event_queue') : event_queue'[i].id # event.id
          /\ ~is_locked'[c]]_vars

\* an elapse_steps(2) that started at the instant 0 with the step 1 has
\* been ended at the instant 1 by the action of an event scheduled for it,
\* with another event still queued
C36_Witness ==
    /\ last.op = "elapse_steps"
    /\ last.cause = "action"
    /\ last.outcome \in ActionExceptions
    /\ step[last.clock] = 1
    /\ last.expect = 2
    /\ last.prev.when = 1
    /\ current_datetime[last.clock] = 1
    /\ ~is_locked[last.clock]
    /\ event_queue # <<>>

\* C34: when a running action's run_at puts an event in the queue, the
\* event stands after the queued events with the same or an earlier `when`
\* and before those with a later one, so that the loop comes to it in
\* `when` order; an elapse fires no event whose `when` is later than its
\* target; and when an elapse returns normally, no event that an action
\* scheduled (the events numbered from 1) with `when` <= the target is left
\* in the queue: it was fired before the elapse returned.
C34_ScheduledByActionFires ==
    [][/\ (/\ last'.op = "run_at"
           /\ stack # <<>>
           /\ Top(stack).kind = "action"
           /\ Len(event_queue') > Len(event_queue))
          => \E p \in 1..Len(event_queue') :
                 /\ event_queue'[p].id = next_id'
                 /\ \A j \in 1..Len(event_queue') :
                        /\ j < p => event_queue'[j].when
                                        <= event_queue'[p].when
                        /\ j > p => event_queue'[j].when
                                        > event_queue'[p].when
       /\ last'.op = "invoke"
          => Top(stack').event.when <= Top(Pop(stack')).until
       /\ (last'.op \in ElapseOps /\ last'.outcome = "ok"
               /\ last'.cause = "none")
          => \A i \in 1..Len(event_queue') :
                 event_queue'[i].id > 0
                     => event_queue'[i].when > last'.expect]_vars

\* an action has just asked for an event at the very instant it runs at
ZeroDelay ==
    /\ last.op = "run_in"
    /\ stack # <<>>
    /\ last.expect = current_datetime[last.clock]

\* C35, as amended: an elapse in which no action schedules an event for
\* the instant it runs at ends: from every state with an elapse in
\* progress, either the elapse returns or raises, or an action schedules
\* an event for its own instant.
C35_ElapseTerminates ==
    (stack # <<>>) ~> (stack = <<>> \/ ZeroDelay)

\* an elapse has returned normally after it fired, last, an event that an
\* action had scheduled while the elapse ran, with a change of one second
C35_Witness ==
    /\ stack = <<>>
    /\ last.op = "elapse"
    /\ last.outcome = "ok"
    /\ last.prev.id < 0
    /\ next_id = 1
    /\ last.prev.when > DEFAULT_CLOCK_START + 1

\* C35, as claimed: every elapse in progress ends, whatever the actions
\* schedule.
C35_Original ==
    (stack # <<>>) ~> (stack = <<>>)

\* C38: when the inner of two nested installed() scopes, entered while the
\* three names were bound to the outer clock's functions, is left, the
\* three names are bound to the outer clock's time_function,
\* sleep_function and async_sleep_function again; when the outer scope is
\* left, they have the values they had before it was entered.
C38_NestedScopesUnwind ==
    [][/\ (/\ Len(installs) = 2
           /\ Len(installs') = 1
           /\ \A b \in Bindings :
                  installs[2].entry[b[1]][b[2]]
                      = ClockFunctions(installs[1].clock)[b[3]])
          => \A b \in Bindings :
                 attrs'[b[1]][b[2]] = ClockFunctions(installs[1].clock)[b[3]]
       /\ (Len(installs) = 1 /\ Len(installs') = 0)
          => \A b \in Bindings :
                 attrs'[b[1]][b[2]] = installs[1].entry[b[1]][b[2]]]_vars

\* the inner scope, of another clock than the outer one, has been left
\* normally after time.time had advanced that clock: the three names are
\* bound to the functions of the outer clock
C38_Witness ==
    /\ Len(installs) = 1
    /\ patch_obs.op = "exit"
    /\ \A b \in Bindings :
           /\ patch_obs.before[b[1]][b[2]]
                  = ClockFunctions(installs[1].clock)[b[3]]
           /\ attrs[b[1]][b[2]] = ClockFunctions(installs[1].clock)[b[3]]
    /\ \E c \in Clocks :
           /\ c # installs[1].clock
           /\ current_datetime[c] > DEFAULT_CLOCK_START

\* the changes a and b are normalized without loss: the timedelta of
\* a + b is the sum of the timedeltas of a and of b
AddsExactly(a, b) ==
    from_change(Sum(a, b)) = from_change(a) + from_change(b)

\* C40, as amended: when the timedelta of a + b is the sum of the
\* timedeltas of a and of b (as it is for integers and timedeltas),
\* elapse(a) followed by elapse(b) gives the same firings, the same
\* current_datetime and the same queue as elapse(a + b).
C40_SplitAdvance ==
    (split_obs.op = "split" /\ AddsExactly(split_obs.a, split_obs.b))
        => split_obs.split = split_obs.single

\* an advance in two elapses, each of which fired an event, has left an
\* event in the queue, as the single elapse does
C40_Witness ==
    /\ split_obs.op = "split"
    /\ AddsExactly(split_obs.a, split_obs.b)
    /\ Len(split_obs.first.log) > 0
    /\ Len(split_obs.split.log) > Len(split_obs.first.log)
    /\ split_obs.split.queue # <<>>
    /\ split_obs.single.log = split_obs.split.log
    /\ current_datetime["c1"] = split_obs.single.now

\* C40, as claimed: the same for any a, b >= 0.
C40_Original ==
    split_obs.op = "split" => split_obs.split = split_obs.single

====
